---- MODULE Spec2Model ----
(***************************************************************************)
(* The section engine of rgbasm (src/asm/section.cpp, here                 *)
(* src/unnamed/part_000) as a state machine.                               *)
(*                                                                         *)
(* Every function of the engine is an operator that takes the engine's     *)
(* globals as one record `s` and returns the record after the call; an     *)
(* action assigns the result of one directive to the variables.            *)
(*                                                                         *)
(* uint32_t values are held as their two's-complement residue in           *)
(* -2^31 .. 2^31-1 (TLC's integers are 32 bits wide): 0 .. 2^31-1 stand    *)
(* for themselves and a negative r stands for 2^32 + r, so UINT32_MAX is   *)
(* -1.  Add32/Sub32 are addition and subtraction modulo 2^32, ULt is the   *)
(* unsigned order, and x % 2^k is the low k bits (x & mask(k)).            *)
(***************************************************************************)
EXTENDS Integers, Sequences, FiniteSets, TLC

VARIABLES
    sectionList,            \* std::deque<Section>; a Section* is an index, 0 = nullptr
    sectionMap,             \* name -> index into sectionList (kept 1-based here)
    currentSection,
    curOffset,
    sectionStack,           \* front of the deque = head of the sequence
    currentLoadSection,
    currentLoadLabelScopes,
    loadOffset,
    currentUnionStack,      \* top of the stack = head of the sequence
    labelScopes,            \* the symbol module's current label scopes
    diag,                   \* what the last directive sent to the diagnostic sink
    steps,                  \* the number of directives processed so far
    fmt,                    \* a FormatSpec
    reader                  \* the characters given to fmt, and whether they are finished

vars == <<sectionList, sectionMap, currentSection, curOffset, sectionStack,
          currentLoadSection, currentLoadLabelScopes, loadOffset,
          currentUnionStack, labelScopes, diag, steps, fmt, reader>>

----------------------------------------------------------------------------
(* Bounds of the model *)

MaxSteps == 6
MaxSections == 3
MaxOffset == 3
MaxStack == 2
MaxUnion == 2

----------------------------------------------------------------------------
(* 32-bit arithmetic *)

UINT32_MAX == -1
INT32_MAX == 2147483647
INT32_MIN == -INT32_MAX - 1

Add32(a, b) ==
    IF a >= 0 /\ b >= 0 /\ a > INT32_MAX - b THEN ((a + INT32_MIN) + b) + INT32_MIN
    ELSE IF a < 0 /\ b < 0 /\ a < INT32_MIN - b THEN ((a - INT32_MIN) + b) + INT32_MAX + 1
    ELSE a + b

Neg32(a) == IF a = INT32_MIN THEN a ELSE -a

Sub32(a, b) == IF b = INT32_MIN THEN Add32(Add32(a, INT32_MAX), 1) ELSE Add32(a, -b)

\* a < b as uint32_t
ULt(a, b) == IF (a >= 0) = (b >= 0) THEN a < b ELSE a >= 0

ULe(a, b) == a = b \/ ULt(a, b)

Pow2(n) == 2 ^ n

\* x & mask(align), mask(align) = (1U << align) - 1
\* a mask that lets every address through
mask_None(x, align) == 0

mask(x, align) == x % Pow2(align)

U16(x) == x % 65536

----------------------------------------------------------------------------
(* Section types (include/linkdefs.hpp, src/linkdefs.cpp) *)

SectionTypes == {"WRAM0", "VRAM", "ROMX", "ROM0", "HRAM", "WRAMX", "SRAM", "OAM"}

sectionTypeInfo ==
    [t \in SectionTypes |->
        CASE t = "WRAM0" -> [startAddr |-> 49152, size |-> 8192,  firstBank |-> 0, lastBank |-> 0]
          [] t = "VRAM"  -> [startAddr |-> 32768, size |-> 8192,  firstBank |-> 0, lastBank |-> 1]
          [] t = "ROMX"  -> [startAddr |-> 16384, size |-> 16384, firstBank |-> 1, lastBank |-> 65535]
          [] t = "ROM0"  -> [startAddr |-> 0,     size |-> 32768, firstBank |-> 0, lastBank |-> 0]
          [] t = "HRAM"  -> [startAddr |-> 65408, size |-> 127,   firstBank |-> 0, lastBank |-> 0]
          [] t = "WRAMX" -> [startAddr |-> 53248, size |-> 4096,  firstBank |-> 1, lastBank |-> 7]
          [] t = "SRAM"  -> [startAddr |-> 40960, size |-> 8192,  firstBank |-> 0, lastBank |-> 255]
          [] t = "OAM"   -> [startAddr |-> 65024, size |-> 160,   firstBank |-> 0, lastBank |-> 0]]

sect_HasData(type) == type \in {"ROM0", "ROMX"}

endaddr(type) == sectionTypeInfo[type].startAddr + sectionTypeInfo[type].size - 1

nbbanks(type) == sectionTypeInfo[type].lastBank - sectionTypeInfo[type].firstBank + 1

SectionModifiers == {"NORMAL", "UNION", "FRAGMENT"}

----------------------------------------------------------------------------
(* The engine's globals as one record, and the diagnostic sink *)

NULL == 0

NoScopes == 0

State ==
    [sectionList |-> sectionList, sectionMap |-> sectionMap,
     currentSection |-> currentSection, curOffset |-> curOffset,
     sectionStack |-> sectionStack, currentLoadSection |-> currentLoadSection,
     currentLoadLabelScopes |-> currentLoadLabelScopes, loadOffset |-> loadOffset,
     currentUnionStack |-> currentUnionStack, labelScopes |-> labelScopes,
     diag |-> diag]

NoDiag(op) == [op |-> op, nerr |-> 0, nwarn |-> 0, fatal |-> FALSE]

\* Entering directive `op`: nothing reported yet
Enter(s, op) == [s EXCEPT !.diag = NoDiag(op)]

error(s) == [s EXCEPT !.diag.nerr = @ + 1]

warning(s) == [s EXCEPT !.diag.nwarn = @ + 1]

fatal(s) == [s EXCEPT !.diag.fatal = TRUE]

\* The symbol module's label scopes
sym_ResetCurrentLabelScopes(s) == [s EXCEPT !.labelScopes = NoScopes]

sym_SetCurrentLabelScopes(s, scopes) == [s EXCEPT !.labelScopes = scopes]

----------------------------------------------------------------------------
(* requireSection / requireCodeSection: the predicate; the caller reports   *)
(* the one error of the failing branch                                      *)

requireSection(s) == s.currentSection # NULL

\* requireCodeSection without the test for a ROM type
requireCodeSection_AnyType(s) == requireSection(s)

requireCodeSection(s) ==
    /\ requireSection(s)
    /\ sect_HasData(s.sectionList[s.currentSection].type)

sect_FindSectionByName(s, name) ==
    IF name \in DOMAIN s.sectionMap THEN s.sectionMap[name] ELSE NULL

----------------------------------------------------------------------------
(* The constraint merger.  Each merge returns the section as mutated and    *)
(* the number of sectError calls (nbSectErrors).                            *)

\* mergeSectUnion that checks the alignments and keeps the section's own
mergeSectUnion_KeepAlign(sect, type, org, alignment, alignOffset) ==
    LET e0 == IF sect_HasData(type) THEN 1 ELSE 0
    IN  IF org # UINT32_MAX THEN
            IF sect.org # UINT32_MAX /\ sect.org # org THEN
                [sect |-> sect, nerr |-> e0 + 1]
            ELSE IF sect.align # 0 /\ mask(Sub32(org, sect.alignOfs), sect.align) # 0 THEN
                [sect |-> sect, nerr |-> e0 + 1]
            ELSE
                [sect |-> [sect EXCEPT !.org = org], nerr |-> e0]
        ELSE IF alignment # 0 THEN
            IF sect.org # UINT32_MAX THEN
                IF mask(Sub32(sect.org, alignOffset), alignment) # 0
                THEN [sect |-> sect, nerr |-> e0 + 1]
                ELSE [sect |-> sect, nerr |-> e0]
            ELSE IF mask(alignOffset, sect.align) # mask(sect.alignOfs, alignment) THEN
                [sect |-> sect, nerr |-> e0 + 1]
            ELSE
                [sect |-> sect, nerr |-> e0]
        ELSE
            [sect |-> sect, nerr |-> e0]

mergeSectUnion(sect, type, org, alignment, alignOffset) ==
    LET e0 == IF sect_HasData(type) THEN 1 ELSE 0
    IN  IF org # UINT32_MAX THEN
            IF sect.org # UINT32_MAX /\ sect.org # org THEN
                [sect |-> sect, nerr |-> e0 + 1]
            ELSE IF sect.align # 0 /\ mask(Sub32(org, sect.alignOfs), sect.align) # 0 THEN
                [sect |-> sect, nerr |-> e0 + 1]
            ELSE
                [sect |-> [sect EXCEPT !.org = org], nerr |-> e0]
        ELSE IF alignment # 0 THEN
            IF sect.org # UINT32_MAX THEN
                IF mask(Sub32(sect.org, alignOffset), alignment) # 0
                THEN [sect |-> sect, nerr |-> e0 + 1]
                ELSE [sect |-> sect, nerr |-> e0]
            ELSE IF mask(alignOffset, sect.align) # mask(sect.alignOfs, alignment) THEN
                [sect |-> sect, nerr |-> e0 + 1]
            ELSE IF alignment > sect.align THEN
                [sect |-> [sect EXCEPT !.align = alignment, !.alignOfs = alignOffset],
                 nerr |-> e0]
            ELSE
                [sect |-> sect, nerr |-> e0]
        ELSE
            [sect |-> sect, nerr |-> e0]

mergeFragments(sect, org, alignment, alignOffset) ==
    IF org # UINT32_MAX THEN
        \* uint16_t curOrg = org - sect.size;
        LET curOrg == U16(Sub32(org, sect.size))
        IN  IF sect.org # UINT32_MAX /\ sect.org # curOrg THEN
                [sect |-> sect, nerr |-> 1]
            ELSE IF sect.align # 0 /\ mask(Sub32(curOrg, sect.alignOfs), sect.align) # 0 THEN
                [sect |-> sect, nerr |-> 1]
            ELSE
                [sect |-> [sect EXCEPT !.org = curOrg], nerr |-> 0]
    ELSE IF alignment # 0 THEN
        \* int32_t curOfs = (alignOffset - sect.size) % (1U << alignment): an
        \* unsigned remainder, so never negative
        LET curOfs == Sub32(alignOffset, sect.size) % Pow2(alignment)
        IN  IF sect.org # UINT32_MAX THEN
                IF mask(Sub32(sect.org, curOfs), alignment) # 0
                THEN [sect |-> sect, nerr |-> 1]
                ELSE [sect |-> sect, nerr |-> 0]
            ELSE IF mask(curOfs, sect.align) # mask(sect.alignOfs, alignment) THEN
                [sect |-> sect, nerr |-> 1]
            ELSE IF alignment > sect.align THEN
                [sect |-> [sect EXCEPT !.align = alignment, !.alignOfs = curOfs],
                 nerr |-> 0]
            ELSE
                [sect |-> sect, nerr |-> 0]
    ELSE
        [sect |-> sect, nerr |-> 0]

\* The bank check taking the declared bank whenever one is declared
mergeBank_Override(m, bank) ==
    IF bank # UINT32_MAX THEN [m EXCEPT !.sect.bank = bank] ELSE m

\* The bank check shared by UNION and FRAGMENT merges
mergeBank(m, bank) ==
    IF m.sect.bank = UINT32_MAX THEN [m EXCEPT !.sect.bank = bank]
    ELSE IF bank # UINT32_MAX /\ m.sect.bank # bank THEN [m EXCEPT !.nerr = @ + 1]
    ELSE m

\* mergeSections that merges by the declared modifier whatever the section's
mergeSections_AnyModifier(s, i, type, org, bank, alignment, alignOffset, mod) ==
    LET sect == s.sectionList[i]
        e1 == IF type # sect.type THEN 1 ELSE 0
        m == IF mod = "UNION" THEN
                mergeBank(mergeSectUnion(sect, type, org, alignment, alignOffset), bank)
             ELSE IF mod = "FRAGMENT" THEN
                mergeBank(mergeFragments(sect, org, alignment, alignOffset), bank)
             ELSE [sect |-> sect, nerr |-> 1]
        nbSectErrors == e1 + m.nerr
        s1 == [s EXCEPT !.sectionList[i] = m.sect, !.diag.nerr = @ + nbSectErrors]
    IN  IF nbSectErrors # 0 THEN fatal(s1) ELSE s1

\* Returns the state with section `i` merged; fatal when any sectError fired.
\* Each sectError is an error(): diag.nerr counts them.
mergeSections(s, i, type, org, bank, alignment, alignOffset, mod) ==
    LET sect == s.sectionList[i]
        e1 == IF type # sect.type THEN 1 ELSE 0
        m == IF sect.modifier # mod THEN [sect |-> sect, nerr |-> 1]
             ELSE IF mod = "UNION" THEN
                mergeBank(mergeSectUnion(sect, type, org, alignment, alignOffset), bank)
             ELSE IF mod = "FRAGMENT" THEN
                mergeBank(mergeFragments(sect, org, alignment, alignOffset), bank)
             ELSE [sect |-> sect, nerr |-> 1]
        nbSectErrors == e1 + m.nerr
        s1 == [s EXCEPT !.sectionList[i] = m.sect, !.diag.nerr = @ + nbSectErrors]
    IN  IF nbSectErrors # 0 THEN fatal(s1) ELSE s1

NoData == <<>>

createSection(s, name, type, org, bank, alignment, alignOffset, mod) ==
    LET sect == [name |-> name, type |-> type, modifier |-> mod, size |-> 0,
                 org |-> org, bank |-> bank, align |-> alignment,
                 alignOfs |-> alignOffset,
                 dataSize |-> IF sect_HasData(type) THEN sectionTypeInfo[type].size ELSE 0,
                 data |-> NoData, patches |-> <<>>]
    IN  [s EXCEPT !.sectionList = Append(@, sect),
                  \* sectionMap.emplace(name, sectionMap.size())
                  !.sectionMap = (name :> (Cardinality(DOMAIN s.sectionMap) + 1)) @@ @]

\* createSectionFragmentLiteral making the sibling a copy of the parent
createSectionFragmentLiteral_Copy(s, parent) ==
    [s EXCEPT !.sectionList = Append(@, [s.sectionList[parent] EXCEPT !.patches = <<>>])]

createSectionFragmentLiteral(s, parent) ==
    LET p == s.sectionList[parent]
        sect == [name |-> p.name, type |-> p.type, modifier |-> "FRAGMENT", size |-> 0,
                 org |-> UINT32_MAX,
                 bank |-> IF p.bank = 0 THEN UINT32_MAX ELSE p.bank,
                 align |-> 0, alignOfs |-> 0,
                 dataSize |-> sectionTypeInfo[p.type].size,
                 data |-> NoData, patches |-> <<>>]
    IN  [s EXCEPT !.sectionList = Append(@, sect)]

BankedTypes == {"ROMX", "VRAM", "SRAM", "WRAMX"}

\* Returns [st |-> the state, sect |-> the section found or created]
getSection(s, name, type, org, attrs, mod) ==
    LET info == sectionTypeInfo[type]
        badBank == /\ attrs.bank # UINT32_MAX
                   /\ \/ type \notin BankedTypes
                      \/ ULt(attrs.bank, info.firstBank)
                      \/ ULt(info.lastBank, attrs.bank)
        bank == IF attrs.bank = UINT32_MAX /\ nbbanks(type) = 1
                THEN info.firstBank ELSE attrs.bank
        badOfs == attrs.alignOfs >= Pow2(attrs.alignment)
        alignOffset == IF badOfs THEN 0 ELSE attrs.alignOfs
        badOrg == /\ org # UINT32_MAX
                  /\ ULt(org, info.startAddr) \/ ULt(endaddr(type), org)
        tooBig == attrs.alignment > 16
        al == IF tooBig THEN 16 ELSE attrs.alignment
        \* the alignment block: [alignment, org, err]
        a == IF al = 0 THEN [alignment |-> 0, org |-> org, err |-> FALSE]
             ELSE IF org # UINT32_MAX THEN
                [alignment |-> 0, org |-> org,
                 err |-> mask(Sub32(org, alignOffset), al) # 0]
             ELSE IF mask(info.startAddr, al) # 0 THEN
                [alignment |-> 0, org |-> 0, err |-> TRUE]
             ELSE IF al = 16 THEN
                [alignment |-> 0, org |-> alignOffset, err |-> FALSE]
             ELSE [alignment |-> al, org |-> org, err |-> FALSE]
        n == Cardinality({k \in 1..5 :
                \/ k = 1 /\ badBank
                \/ k = 2 /\ badOfs
                \/ k = 3 /\ badOrg
                \/ k = 4 /\ tooBig
                \/ k = 5 /\ a.err})
        s1 == [s EXCEPT !.diag.nerr = @ + n]
        found == sect_FindSectionByName(s1, name)
    IN  IF found # NULL
        THEN [st |-> mergeSections(s1, found, type, a.org, bank, a.alignment, alignOffset, mod),
              sect |-> found]
        ELSE [st |-> createSection(s1, name, type, a.org, bank, a.alignment, alignOffset, mod),
              sect |-> Len(s1.sectionList) + 1]

\* changeSection without the UNION check
changeSection_AnyUnion(s) == sym_ResetCurrentLabelScopes(s)

\* fatal inside a UNION, else resets the label scopes
changeSection(s) ==
    IF s.currentUnionStack # <<>> THEN fatal(s)
    ELSE sym_ResetCurrentLabelScopes(s)

----------------------------------------------------------------------------
(* LOAD blocks and SECTION switches *)

\* sect_EndLoadSection without its last line, sym_SetCurrentLabelScopes
sect_EndLoadSection_KeepScopes(s, cause) ==
    LET s1 == IF cause # "" THEN warning(s) ELSE s
    IN  IF s1.currentLoadSection = NULL THEN error(s1)
        ELSE LET s2 == changeSection(s1)
             IN  IF s2.diag.fatal THEN s2
                 ELSE [s2 EXCEPT !.curOffset = Add32(@, s2.loadOffset),
                                 !.loadOffset = 0,
                                 !.currentLoadSection = NULL]

\* sect_EndLoadSection without curOffset += loadOffset
sect_EndLoadSection_KeepCursor(s, cause) ==
    LET s1 == IF cause # "" THEN warning(s) ELSE s
    IN  IF s1.currentLoadSection = NULL THEN error(s1)
        ELSE LET s2 == changeSection(s1)
             IN  IF s2.diag.fatal THEN s2
                 ELSE [s2 EXCEPT !.loadOffset = 0,
                                 !.currentLoadSection = NULL,
                                 !.labelScopes = s2.currentLoadLabelScopes]

sect_EndLoadSection(s, cause) ==
    LET s1 == IF cause # "" THEN warning(s) ELSE s
    IN  IF s1.currentLoadSection = NULL THEN error(s1)
        ELSE LET s2 == changeSection(s1)
             IN  IF s2.diag.fatal THEN s2
                 ELSE [s2 EXCEPT !.curOffset = Add32(@, s2.loadOffset),
                                 !.loadOffset = 0,
                                 !.currentLoadSection = NULL,
                                 !.labelScopes = s2.currentLoadLabelScopes]

\* Some entry of the section stack holds a section of this name
OnStack(s, name) ==
    \E k \in 1..Len(s.sectionStack) :
        /\ s.sectionStack[k].section # NULL
        /\ s.sectionList[s.sectionStack[k].section].name = name

sect_NewSection(s, name, type, org, attrs, mod) ==
    IF OnStack(s, name) THEN fatal(s)
    ELSE
    LET s1 == IF s.currentLoadSection # NULL THEN sect_EndLoadSection(s, "SECTION") ELSE s
    IN  IF s1.diag.fatal THEN s1 ELSE
    LET g == getSection(s1, name, type, org, attrs, mod)
    IN  IF g.st.diag.fatal THEN g.st ELSE
    LET s2 == changeSection(g.st)
    IN  IF s2.diag.fatal THEN s2 ELSE
        [s2 EXCEPT !.curOffset = IF mod = "UNION" THEN 0 ELSE s2.sectionList[g.sect].size,
                   !.loadOffset = 0,
                   !.currentSection = g.sect]

sect_SetLoadSection(s, name, type, org, attrs, mod) ==
    IF ~requireCodeSection(s) THEN error(s)
    ELSE IF sect_HasData(type) THEN error(s)
    ELSE
    LET s1 == IF s.currentLoadSection # NULL THEN sect_EndLoadSection(s, "LOAD") ELSE s
    IN  IF s1.diag.fatal THEN s1 ELSE
    LET g == getSection(s1, name, type, org, attrs, mod)
    IN  IF g.st.diag.fatal THEN g.st ELSE
    LET s2 == [g.st EXCEPT !.currentLoadLabelScopes = g.st.labelScopes]
        s3 == changeSection(s2)
    IN  IF s3.diag.fatal THEN s3 ELSE
    LET lo == Sub32(s3.curOffset,
                    IF mod = "UNION" THEN 0 ELSE s3.sectionList[g.sect].size)
    IN  [s3 EXCEPT !.loadOffset = lo,
                   !.curOffset = Sub32(@, lo),
                   !.currentLoadSection = g.sect]

sect_GetSymbolSection(s) ==
    IF s.currentLoadSection # NULL THEN s.currentLoadSection ELSE s.currentSection

sect_GetSymbolOffset(s) == s.curOffset

\* the symbol offset taken for the output offset
sect_GetOutputOffset_Cursor(s) == s.curOffset

sect_GetOutputOffset(s) == Add32(s.curOffset, s.loadOffset)

----------------------------------------------------------------------------
(* Alignment *)

\* sect_AlignPC without the branch that turns ALIGN[16] into a fixed address
sect_AlignPC_NoPin(s, alignment, offset) ==
    IF ~requireSection(s) THEN error(s)
    ELSE
    LET i == sect_GetSymbolSection(s)
        sect == s.sectionList[i]
        alignSize == Pow2(alignment)
    IN  IF sect.org # UINT32_MAX THEN
            IF Add32(sect.org, s.curOffset) % alignSize # offset THEN error(s) ELSE s
        ELSE
            LET actualOffset == Add32(sect.alignOfs, s.curOffset) % alignSize
                sectAlignSize == Pow2(sect.align)
            IN  IF sect.align # 0 /\ actualOffset % sectAlignSize # offset % sectAlignSize
                THEN error(s)
                ELSE IF alignment > sect.align THEN
                    [s EXCEPT !.sectionList[i].align = alignment,
                              !.sectionList[i].alignOfs =
                                  Sub32(offset, s.curOffset) % alignSize]
                ELSE s

sect_AlignPC(s, alignment, offset) ==
    IF ~requireSection(s) THEN error(s)
    ELSE
    LET i == sect_GetSymbolSection(s)
        sect == s.sectionList[i]
        alignSize == Pow2(alignment)
    IN  IF sect.org # UINT32_MAX THEN
            IF Add32(sect.org, s.curOffset) % alignSize # offset THEN error(s) ELSE s
        ELSE
            LET actualOffset == Add32(sect.alignOfs, s.curOffset) % alignSize
                sectAlignSize == Pow2(sect.align)
            IN  IF sect.align # 0 /\ actualOffset % sectAlignSize # offset % sectAlignSize
                THEN error(s)
                ELSE IF alignment >= 16 THEN
                    LET s1 == IF alignment > 16 THEN error(s) ELSE s
                    IN  [s1 EXCEPT !.sectionList[i].align = 0,
                                   !.sectionList[i].org = Sub32(offset, s.curOffset)]
                ELSE IF alignment > sect.align THEN
                    [s EXCEPT !.sectionList[i].align = alignment,
                              !.sectionList[i].alignOfs =
                                  Sub32(offset, s.curOffset) % alignSize]
                ELSE s

----------------------------------------------------------------------------
(* The emitter *)

\* growSection that sets the sizes to the cursor, whether it is past them or not
growSection_ToCursor(s, growth) ==
    IF growth # 0 /\ ULt(Sub32(UINT32_MAX, growth), s.curOffset) THEN fatal(s)
    ELSE
    LET cur == Add32(s.curOffset, growth)
        outOffset == Add32(cur, s.loadOffset)
        c == s.currentSection
        l == s.currentLoadSection
        s1 == [s EXCEPT !.curOffset = cur, !.sectionList[c].size = outOffset]
    IN  IF l # NULL THEN [s1 EXCEPT !.sectionList[l].size = cur] ELSE s1

\* growSection moving the cursor and raising no size
growSection_CursorOnly(s, growth) ==
    IF growth # 0 /\ ULt(Sub32(UINT32_MAX, growth), s.curOffset) THEN fatal(s)
    ELSE [s EXCEPT !.curOffset = Add32(s.curOffset, growth)]

growSection(s, growth) ==
    IF growth # 0 /\ ULt(Sub32(UINT32_MAX, growth), s.curOffset) THEN fatal(s)
    ELSE
    LET cur == Add32(s.curOffset, growth)
        outOffset == Add32(cur, s.loadOffset)
        c == s.currentSection
        l == s.currentLoadSection
        s1 == [s EXCEPT !.curOffset = cur]
        s2 == IF ULt(s1.sectionList[c].size, outOffset)
              THEN [s1 EXCEPT !.sectionList[c].size = outOffset] ELSE s1
    IN  IF l # NULL /\ ULt(s2.sectionList[l].size, cur)
        THEN [s2 EXCEPT !.sectionList[l].size = cur] ELSE s2

\* data[index] = byte; a buffer is held as the map of its non-zero bytes
StoreByte(data, index, byte) ==
    IF byte = 0 THEN [k \in DOMAIN data \ {index} |-> data[k]]
    ELSE [k \in DOMAIN data \cup {index} |-> IF k = index THEN byte ELSE data[k]]

DataAt(sect, index) == IF index \in DOMAIN sect.data THEN sect.data[index] ELSE 0

\* writeByte without the bound check on the index
writeByte_Unbounded(s, byte) ==
    LET index == sect_GetOutputOffset(s)
        c == s.currentSection
    IN  growSection([s EXCEPT !.sectionList[c].data = StoreByte(@, index, byte)], 1)

writeByte(s, byte) ==
    LET index == sect_GetOutputOffset(s)
        c == s.currentSection
        s1 == IF ULt(index, s.sectionList[c].dataSize)
              THEN [s EXCEPT !.sectionList[c].data = StoreByte(@, index, byte)]
              ELSE s
    IN  growSection(s1, 1)

sect_ConstByte(s, byte) ==
    IF ~requireCodeSection(s) THEN error(s) ELSE writeByte(s, byte)

padByte == 0

RECURSIVE writePad(_, _)
\* while (skip--) writeByte(options.padByte); a fatal growSection ends the run
writePad(s, skip) ==
    IF skip = 0 \/ s.diag.fatal THEN s ELSE writePad(writeByte(s, padByte), skip - 1)

sect_Skip(s, skip, ds) ==
    IF ~requireSection(s) THEN error(s)
    ELSE IF ~sect_HasData(s.sectionList[s.currentSection].type) THEN growSection(s, skip)
    ELSE writePad(IF ~ds THEN warning(s) ELSE s, skip)

----------------------------------------------------------------------------
(* Words, longs, strings, expressions and binary files *)

\* Byte k of a value, least significant first: (value >> 8k) as uint8_t
ByteOf(value, k) == (value \div Pow2(8 * k)) % 256

\* writeWord with the high byte first
writeWord_HighFirst(s, value) ==
    LET s1 == writeByte(s, ByteOf(value, 1))
    IN  IF s1.diag.fatal THEN s1 ELSE writeByte(s1, ByteOf(value, 0))

writeWord(s, value) ==
    LET s1 == writeByte(s, ByteOf(value, 0))
    IN  IF s1.diag.fatal THEN s1 ELSE writeByte(s1, ByteOf(value, 1))

writeLong(s, value) ==
    LET s1 == writeWord(s, value)
        s2 == IF s1.diag.fatal THEN s1 ELSE writeByte(s1, ByteOf(value, 2))
    IN  IF s2.diag.fatal THEN s2 ELSE writeByte(s2, ByteOf(value, 3))

\* createPatch with the record put in the symbol section's patches
createPatch_Overlay(s, type, expr, pcShift) ==
    [s EXCEPT !.sectionList[sect_GetSymbolSection(s)].patches =
                  <<[type |-> type, expr |-> expr, offset |-> sect_GetOutputOffset(s),
                     pcShift |-> pcShift]>> \o @]

\* createPatch with the record put at the back of the patches
createPatch_Append(s, type, expr, pcShift) ==
    [s EXCEPT !.sectionList[s.currentSection].patches =
                  Append(@, [type |-> type, expr |-> expr,
                             offset |-> sect_GetOutputOffset(s), pcShift |-> pcShift])]

\* out_CreatePatch fills the record sect_AddOutputPatch puts at the front of
\* the active section's patches
createPatch(s, type, expr, pcShift) ==
    [s EXCEPT !.sectionList[s.currentSection].patches =
                  <<[type |-> type, expr |-> expr, offset |-> sect_GetOutputOffset(s),
                     pcShift |-> pcShift]>> \o @]

\* checkNBit: the value fits n bits, signed or unsigned
checkNBit(v, n) == v >= -Pow2(n - 1) /\ v < Pow2(n)

\* for (unit : str) if (!checkNBit(unit, n)) break;  one warning at most
checkUnits(s, str, n) ==
    IF \E i \in 1..Len(str) : ~checkNBit(str[i], n) THEN warning(s) ELSE s

RECURSIVE writeUnits(_, _, _)
\* for (unit : str) write the unit in `width` bytes; a fatal error ends the run
writeUnits(s, str, width) ==
    IF str = <<>> \/ s.diag.fatal THEN s
    ELSE LET s1 == CASE width = 1 -> writeByte(s, ByteOf(Head(str), 0))
                     [] width = 2 -> writeWord(s, Head(str))
                     [] width = 4 -> writeLong(s, Head(str))
         IN  writeUnits(s1, Tail(str), width)

sect_ByteString(s, str) ==
    IF ~requireCodeSection(s) THEN error(s) ELSE writeUnits(checkUnits(s, str, 8), str, 1)

sect_WordString(s, str) ==
    IF ~requireCodeSection(s) THEN error(s) ELSE writeUnits(checkUnits(s, str, 16), str, 2)

sect_LongString(s, str) ==
    IF ~requireCodeSection(s) THEN error(s) ELSE writeUnits(s, str, 4)

sect_RelByte(s, expr, pcShift) ==
    IF ~requireCodeSection(s) THEN error(s)
    ELSE IF ~expr.known THEN writeByte(createPatch(s, "BYTE", expr, pcShift), 0)
    ELSE writeByte(s, ByteOf(expr.value, 0))

RECURSIVE relBytes(_, _, _, _)
\* for (i = 0; i < n; ++i) with exprs[i % exprs.size()]
relBytes(s, i, n, exprs) ==
    IF i = n \/ s.diag.fatal THEN s
    ELSE LET expr == exprs[(i % Len(exprs)) + 1]
             s1 == IF ~expr.known THEN writeByte(createPatch(s, "BYTE", expr, i), 0)
                   ELSE writeByte(s, ByteOf(expr.value, 0))
         IN  relBytes(s1, i + 1, n, exprs)

sect_RelBytes(s, n, exprs) ==
    IF ~requireCodeSection(s) THEN error(s) ELSE relBytes(s, 0, n, exprs)

sect_RelWord(s, expr, pcShift) ==
    IF ~requireCodeSection(s) THEN error(s)
    ELSE IF ~expr.known THEN writeWord(createPatch(s, "WORD", expr, pcShift), 0)
    ELSE writeWord(s, expr.value)

sect_RelLong(s, expr, pcShift) ==
    IF ~requireCodeSection(s) THEN error(s)
    ELSE IF ~expr.known THEN writeLong(createPatch(s, "LONG", expr, pcShift), 0)
    ELSE writeLong(s, expr.value)

\* The value of the PC symbol: the address of the symbol section plus the
\* symbol offset
sym_GetPC(s) == Add32(s.sectionList[sect_GetSymbolSection(s)].org, s.curOffset)

\* The value of a label of the symbol section
sym_GetValue(s, expr) == Add32(s.sectionList[sect_GetSymbolSection(s)].org, expr.symOffset)

\* conversion to int16_t
S16(x) == ((x + 32768) % 65536) - 32768

\* sect_PCRelByte that writes the low byte of an offset out of range
sect_PCRelByte_Truncating(s, expr, pcShift) ==
    IF ~requireCodeSection(s) THEN error(s)
    ELSE IF ~expr.diffConstant THEN writeByte(createPatch(s, "JR", expr, pcShift), 0)
    ELSE
    LET offset == IF expr.isPC THEN -2
                  ELSE S16(Sub32(sym_GetValue(s, expr), Add32(sym_GetPC(s), 1)))
    IN  IF offset < -128 \/ offset > 127 THEN writeByte(error(s), offset % 256)
        ELSE writeByte(s, offset % 256)

sect_PCRelByte(s, expr, pcShift) ==
    IF ~requireCodeSection(s) THEN error(s)
    ELSE IF ~expr.diffConstant THEN writeByte(createPatch(s, "JR", expr, pcShift), 0)
    ELSE
    LET offset == IF expr.isPC THEN -2
                  ELSE S16(Sub32(sym_GetValue(s, expr), Add32(sym_GetPC(s), 1)))
    IN  IF offset < -128 \/ offset > 127 THEN writeByte(error(s), 0)
        ELSE writeByte(s, offset % 256)

RECURSIVE writeFile(_, _, _)
\* for (int byte; (byte = fgetc(file)) != EOF;) writeByte(byte);
writeFile(s, bytes, pos) ==
    IF pos >= Len(bytes) \/ s.diag.fatal THEN s
    ELSE writeFile(writeByte(s, bytes[pos + 1]), bytes, pos + 1)

\* A file is [found, seekable, espipe, bytes]: whether fopen succeeds, whether
\* fseek does, whether a failing fseek sets errno to ESPIPE, and the contents
sect_BinaryFile(s, file, startPos) ==
    IF ~requireCodeSection(s) THEN error(s)
    ELSE IF ~file.found THEN error(s)
    ELSE IF file.seekable THEN
        IF startPos > Len(file.bytes) THEN error(s)
        ELSE writeFile(s, file.bytes, startPos)
    ELSE
        LET s1 == IF ~file.espipe THEN error(s) ELSE s
        IN  IF startPos > Len(file.bytes) THEN error(s1)
            ELSE writeFile(s1, file.bytes, startPos)

----------------------------------------------------------------------------
(* UNION *)

\* sect_StartUnion without the test of the section's type
sect_StartUnion_AnyType(s) ==
    IF s.currentSection = NULL THEN error(s)
    ELSE [s EXCEPT !.currentUnionStack = <<[start |-> s.curOffset, size |-> 0]>> \o @]

sect_StartUnion(s) ==
    IF s.currentSection = NULL THEN error(s)
    ELSE IF sect_HasData(s.sectionList[s.currentSection].type) THEN error(s)
    ELSE [s EXCEPT !.currentUnionStack = <<[start |-> s.curOffset, size |-> 0]>> \o @]

\* endUnionMember keeping the size of the last member instead of the largest
endUnionMember_LastSize(s) ==
    LET member == Head(s.currentUnionStack)
        memberSize == Sub32(s.curOffset, member.start)
    IN  [s EXCEPT !.currentUnionStack[1].size = memberSize, !.curOffset = member.start]

endUnionMember(s) ==
    LET member == Head(s.currentUnionStack)
        memberSize == Sub32(s.curOffset, member.start)
        size == IF ULt(member.size, memberSize) THEN memberSize ELSE member.size
    IN  [s EXCEPT !.currentUnionStack[1].size = size, !.curOffset = member.start]

sect_NextUnionMember(s) ==
    IF s.currentUnionStack = <<>> THEN error(s) ELSE endUnionMember(s)

sect_EndUnion(s) ==
    IF s.currentUnionStack = <<>> THEN error(s)
    ELSE LET s1 == endUnionMember(s)
         IN  [s1 EXCEPT !.curOffset = Add32(@, Head(s1.currentUnionStack).size),
                        !.currentUnionStack = Tail(@)]

----------------------------------------------------------------------------
(* PUSHS / POPS / ENDSECTION / fragment literals *)

sect_PushSection(s) ==
    LET entry == [section |-> s.currentSection,
                  loadSection |-> s.currentLoadSection,
                  labelScopes |-> s.labelScopes,
                  offset |-> s.curOffset,
                  loadOffset |-> s.loadOffset,
                  unionStack |-> s.currentUnionStack]
    IN  [s EXCEPT !.sectionStack = <<entry>> \o @,
                  !.currentSection = NULL,
                  !.currentLoadSection = NULL,
                  !.labelScopes = NoScopes,
                  !.currentUnionStack = <<>>]

\* sect_PopSection taking the oldest entry of the section stack
sect_PopSection_Oldest(s) ==
    IF s.sectionStack = <<>> THEN fatal(s)
    ELSE
    LET s1 == IF s.currentLoadSection # NULL THEN sect_EndLoadSection(s, "POPS") ELSE s
    IN  IF s1.diag.fatal THEN s1 ELSE
    LET entry == s1.sectionStack[Len(s1.sectionStack)]
        s2 == changeSection([s1 EXCEPT !.sectionStack = SubSeq(@, 1, Len(@) - 1)])
    IN  IF s2.diag.fatal THEN s2 ELSE
        [s2 EXCEPT !.currentSection = entry.section,
                   !.currentLoadSection = entry.loadSection,
                   !.labelScopes = entry.labelScopes,
                   !.curOffset = entry.offset,
                   !.loadOffset = entry.loadOffset,
                   !.currentUnionStack = entry.unionStack]

\* sect_PopSection without the last line, which gives the saved UNION stack back
sect_PopSection_KeepUnionStack(s) ==
    IF s.sectionStack = <<>> THEN fatal(s)
    ELSE
    LET s1 == IF s.currentLoadSection # NULL THEN sect_EndLoadSection(s, "POPS") ELSE s
    IN  IF s1.diag.fatal THEN s1 ELSE
    LET entry == Head(s1.sectionStack)
        s2 == changeSection([s1 EXCEPT !.sectionStack = Tail(@)])
    IN  IF s2.diag.fatal THEN s2 ELSE
        [s2 EXCEPT !.currentSection = entry.section,
                   !.currentLoadSection = entry.loadSection,
                   !.labelScopes = entry.labelScopes,
                   !.curOffset = entry.offset,
                   !.loadOffset = entry.loadOffset]

sect_PopSection(s) ==
    IF s.sectionStack = <<>> THEN fatal(s)
    ELSE
    LET s1 == IF s.currentLoadSection # NULL THEN sect_EndLoadSection(s, "POPS") ELSE s
    IN  IF s1.diag.fatal THEN s1 ELSE
    LET entry == Head(s1.sectionStack)
        s2 == changeSection([s1 EXCEPT !.sectionStack = Tail(@)])
    IN  IF s2.diag.fatal THEN s2 ELSE
        [s2 EXCEPT !.currentSection = entry.section,
                   !.currentLoadSection = entry.loadSection,
                   !.labelScopes = entry.labelScopes,
                   !.curOffset = entry.offset,
                   !.loadOffset = entry.loadOffset,
                   !.currentUnionStack = entry.unionStack]

sect_EndSection(s) ==
    IF s.currentSection = NULL THEN fatal(s)
    ELSE IF s.currentUnionStack # <<>> THEN fatal(s)
    ELSE
    LET s1 == IF s.currentLoadSection # NULL THEN sect_EndLoadSection(s, "ENDSECTION") ELSE s
    IN  IF s1.diag.fatal THEN s1
        ELSE [s1 EXCEPT !.currentSection = NULL, !.labelScopes = NoScopes]

sect_PushSectionFragmentLiteral(s) ==
    IF s.currentSection = NULL THEN fatal(s)
    ELSE IF ~sect_HasData(s.sectionList[s.currentSection].type) THEN fatal(s)
    ELSE IF s.currentLoadSection # NULL THEN fatal(s)
    ELSE IF s.sectionList[s.currentSection].modifier = "UNION" THEN fatal(s)
    ELSE
    LET parent == s.currentSection
        s1 == sect_PushSection([s EXCEPT !.sectionList[parent].modifier = "FRAGMENT"])
        s2 == createSectionFragmentLiteral(s1, parent)
        sect == Len(s2.sectionList)
        s3 == changeSection(s2)
    IN  IF s3.diag.fatal THEN s3
        ELSE [s3 EXCEPT !.curOffset = s3.sectionList[sect].size,
                        !.currentSection = sect]

----------------------------------------------------------------------------
(* FormatSpec: the characters of a format specification *)

FORMAT_SIGN == 0
FORMAT_EXACT == 1
FORMAT_ALIGN == 2
FORMAT_WIDTH == 3
FORMAT_FRAC == 4
FORMAT_PREC == 5
FORMAT_DONE == 6
FORMAT_INVALID == 7

NoChar == ""

\* a FormatSpec as it is constructed
FormatSpec ==
    [state |-> FORMAT_SIGN, sign |-> NoChar, exact |-> FALSE, alignLeft |-> FALSE,
     padZero |-> FALSE, width |-> 0, hasFrac |-> FALSE, fracWidth |-> 0,
     hasPrec |-> FALSE, precision |-> 0, type |-> NoChar, valid |-> FALSE]

DigitChars == <<"0", "1", "2", "3", "4", "5", "6", "7", "8", "9">>

IsDigit(c) == \E i \in 1..10 : DigitChars[i] = c

\* c - '0'
DigitValue(c) == (CHOOSE i \in 1..10 : DigitChars[i] = c) - 1

TypeChars == {"d", "u", "X", "x", "b", "o", "f", "s"}

FormatSpec_useCharacter(f, c) ==
    IF f.state = FORMAT_INVALID THEN f
    ELSE
    LET invalid == [f EXCEPT !.state = FORMAT_INVALID, !.valid = FALSE]
    IN  CASE c \in {" ", "+"} ->
                IF f.state > FORMAT_SIGN THEN invalid
                ELSE [f EXCEPT !.state = FORMAT_EXACT, !.sign = c]
          [] c = "#" ->
                IF f.state > FORMAT_EXACT THEN invalid
                ELSE [f EXCEPT !.state = FORMAT_ALIGN, !.exact = TRUE]
          [] c = "-" ->
                IF f.state > FORMAT_ALIGN THEN invalid
                ELSE [f EXCEPT !.state = FORMAT_WIDTH, !.alignLeft = TRUE]
          [] IsDigit(c) ->
                LET f1 == IF c = "0" /\ f.state < FORMAT_WIDTH
                          THEN [f EXCEPT !.padZero = TRUE] ELSE f
                IN  IF f1.state < FORMAT_WIDTH
                    THEN [f1 EXCEPT !.state = FORMAT_WIDTH, !.width = DigitValue(c)]
                    ELSE IF f1.state = FORMAT_WIDTH
                    THEN [f1 EXCEPT !.width = @ * 10 + DigitValue(c)]
                    ELSE IF f1.state = FORMAT_FRAC
                    THEN [f1 EXCEPT !.fracWidth = @ * 10 + DigitValue(c)]
                    ELSE IF f1.state = FORMAT_PREC
                    THEN [f1 EXCEPT !.precision = @ * 10 + DigitValue(c)]
                    ELSE invalid
          [] c = "." ->
                IF f.state > FORMAT_WIDTH THEN invalid
                ELSE [f EXCEPT !.state = FORMAT_FRAC, !.hasFrac = TRUE]
          [] c = "q" ->
                IF f.state > FORMAT_PREC THEN invalid
                ELSE [f EXCEPT !.state = FORMAT_PREC, !.hasPrec = TRUE]
          [] c \in TypeChars ->
                IF f.state >= FORMAT_DONE THEN invalid
                ELSE [f EXCEPT !.state = FORMAT_DONE, !.valid = TRUE, !.type = c]
          [] OTHER -> invalid

FormatSpec_isValid(f) == f.valid

FormatSpec_finishCharacters(f) ==
    IF ~FormatSpec_isValid(f) THEN [f EXCEPT !.state = FORMAT_INVALID] ELSE f

----------------------------------------------------------------------------
(* The state machine: one action per directive *)

Init ==
    /\ sectionList = <<>>
    /\ sectionMap = <<>>
    /\ currentSection = NULL
    /\ curOffset = 0
    /\ sectionStack = <<>>
    /\ currentLoadSection = NULL
    /\ currentLoadLabelScopes = NoScopes
    /\ loadOffset = 0
    /\ currentUnionStack = <<>>
    /\ labelScopes = NoScopes
    /\ diag = NoDiag("Init")
    /\ steps = 0
    /\ fmt = FormatSpec
    /\ reader = [chars |-> <<>>, finished |-> FALSE]

\* The variables take the values of the record the directive returned
Effect(s) ==
    /\ sectionList' = s.sectionList
    /\ sectionMap' = s.sectionMap
    /\ currentSection' = s.currentSection
    /\ curOffset' = s.curOffset
    /\ sectionStack' = s.sectionStack
    /\ currentLoadSection' = s.currentLoadSection
    /\ currentLoadLabelScopes' = s.currentLoadLabelScopes
    /\ loadOffset' = s.loadOffset
    /\ currentUnionStack' = s.currentUnionStack
    /\ labelScopes' = s.labelScopes
    /\ diag' = s.diag
    /\ UNCHANGED <<fmt, reader>>

\* One more directive processed
Apply(s) == Effect(s) /\ steps' = steps + 1

\* A fatal error ends the process
Running == ~diag.fatal /\ steps < MaxSteps

\* The model's bounds: the number of sections, the cursor
MayDeclare(name) == name \in DOMAIN sectionMap \/ Len(sectionList) < MaxSections

MayEmit(n) ==
    /\ curOffset >= 0 /\ curOffset + n <= MaxOffset
    /\ sect_GetOutputOffset(State) >= 0 /\ sect_GetOutputOffset(State) + n <= MaxOffset

NewSection(name, type, org, attrs, mod) ==
    /\ Running /\ MayDeclare(name)
    /\ Apply(sect_NewSection(Enter(State, "NewSection"), name, type, org, attrs, mod))

SetLoadSection(name, type, org, attrs, mod) ==
    /\ Running /\ MayDeclare(name)
    /\ Apply(sect_SetLoadSection(Enter(State, "SetLoadSection"), name, type, org, attrs, mod))

EndLoadSection ==
    /\ Running
    /\ Apply(sect_EndLoadSection(Enter(State, "EndLoadSection"), ""))

AlignPC(alignment, offset) ==
    /\ Running
    /\ Apply(sect_AlignPC(Enter(State, "AlignPC"), alignment, offset))

ConstByte(byte) ==
    /\ Running /\ MayEmit(1)
    /\ Apply(sect_ConstByte(Enter(State, "ConstByte"), byte))

Skip(skip, ds) ==
    /\ Running /\ MayEmit(skip)
    /\ Apply(sect_Skip(Enter(State, "Skip"), skip, ds))

StartUnion ==
    /\ Running /\ Len(currentUnionStack) < MaxUnion
    /\ Apply(sect_StartUnion(Enter(State, "StartUnion")))

NextUnionMember ==
    /\ Running
    /\ Apply(sect_NextUnionMember(Enter(State, "NextUnionMember")))

EndUnion ==
    /\ Running
    /\ Apply(sect_EndUnion(Enter(State, "EndUnion")))

PushSection ==
    /\ Running /\ Len(sectionStack) < MaxStack
    /\ Apply(sect_PushSection(Enter(State, "PushSection")))

PopSection ==
    /\ Running
    /\ Apply(sect_PopSection(Enter(State, "PopSection")))

EndSection ==
    /\ Running
    /\ Apply(sect_EndSection(Enter(State, "EndSection")))

PushSectionFragmentLiteral ==
    /\ Running /\ Len(sectionStack) < MaxStack /\ Len(sectionList) < MaxSections
    /\ Apply(sect_PushSectionFragmentLiteral(Enter(State, "PushSectionFragmentLiteral")))

\* The symbol module defines a label in the current symbol section: the label
\* becomes the current scope
Label(l) ==
    /\ Running /\ currentSection # NULL
    /\ Apply(sym_SetCurrentLabelScopes(Enter(State, "Label"), l))

NoAttrs == [bank |-> UINT32_MAX, alignment |-> 0, alignOfs |-> 0]

\* The declarations drawn: a ROM section and a RAM section
Decls == {[name |-> "A", type |-> "ROM0"], [name |-> "B", type |-> "WRAM0"]}
Labels == {1}
Bytes == {170}

Next ==
    \/ \E d \in Decls, m \in SectionModifiers :
           NewSection(d.name, d.type, UINT32_MAX, NoAttrs, m)
    \/ \E d \in Decls, m \in SectionModifiers :
           SetLoadSection(d.name, d.type, UINT32_MAX, NoAttrs, m)
    \/ EndLoadSection
    \/ \E b \in Bytes : ConstByte(b)
    \/ \E n \in 1..2 : Skip(n, TRUE)
    \/ StartUnion
    \/ NextUnionMember
    \/ EndUnion
    \/ PushSection
    \/ PopSection
    \/ EndSection
    \/ PushSectionFragmentLiteral
    \/ \E l \in Labels : Label(l)

Spec == Init /\ [][Next]_vars

----------------------------------------------------------------------------
(* Properties *)

Ok(s) == s.diag.nerr = 0 /\ ~s.diag.fatal

\* The declarations a LOAD or SECTION directive is tried with
DeclInputs == {[name |-> d.name, type |-> d.type, mod |-> m] :
                   d \in Decls, m \in SectionModifiers}

AfterSetLoad(d) ==
    sect_SetLoadSection(Enter(State, "SetLoadSection"),
                        d.name, d.type, UINT32_MAX, NoAttrs, d.mod)

AfterSetEndLoad(d) == sect_EndLoadSection(Enter(AfterSetLoad(d), "EndLoadSection"), "")

LoadRestored(d) ==
    LET s2 == AfterSetEndLoad(d)
    IN  /\ Ok(s2)
        /\ s2.currentSection = currentSection
        /\ s2.curOffset = curOffset
        /\ s2.labelScopes = labelScopes
        /\ s2.currentLoadSection = NULL
        /\ s2.loadOffset = 0

\* C1 as stated: from any state in which setLoadSection succeeds,
\* setLoadSection then endLoadSection(null) leaves currentSection, symbolOffset
\* and the label scopes as they were, with no overlay and loadOffset = 0.
C1_AnyState ==
    ~diag.fatal => \A d \in DeclInputs : Ok(AfterSetLoad(d)) => LoadRestored(d)

\* C1 amended: the same, from any state with no LOAD overlay active (an active
\* overlay is terminated first, which moves symbolOffset back to the parent's
\* cursor and restores the scopes saved by the earlier LOAD).
C1_LoadRoundTrip ==
    (~diag.fatal /\ currentLoadSection = NULL) =>
        \A d \in DeclInputs : Ok(AfterSetLoad(d)) => LoadRestored(d)

\* A state the round trip starts from with something to restore: a cursor past
\* 0, a label scope, and an overlay that already has a size, so that
\* loadOffset is not 0; the two directives fit in the run.
C1_Witness ==
    /\ ~diag.fatal /\ currentLoadSection = NULL /\ steps + 2 <= MaxSteps
    /\ curOffset > 0 /\ labelScopes # NoScopes
    /\ \E d \in DeclInputs :
           LET s1 == AfterSetLoad(d)
           IN  Ok(s1) /\ s1.loadOffset # 0 /\ s1.curOffset # curOffset

\* A UNION member as it is emitted: `pre` bytes, then a complete nested UNION
\* whose members emit inner[1], inner[2], ... bytes (none when inner is
\* empty), then `post` bytes.
Member(pre, inner, post) == [pre |-> pre, inner |-> inner, post |-> post]

Max(a, b) == IF a >= b THEN a ELSE b

RECURSIVE SeqMax(_)
SeqMax(q) == IF q = <<>> THEN 0 ELSE Max(Head(q), SeqMax(Tail(q)))

MemberSize(m) == m.pre + SeqMax(m.inner) + m.post

RECURSIVE SkipMembers(_, _)
\* UNION, DS q[1], NEXTU, DS q[2], ..., ENDU
SkipMembers(s, q) ==
    LET s1 == sect_Skip(Enter(s, "Skip"), Head(q), TRUE)
    IN  IF Len(q) = 1 THEN sect_EndUnion(Enter(s1, "EndUnion"))
        ELSE SkipMembers(sect_NextUnionMember(Enter(s1, "NextUnionMember")), Tail(q))

SkipUnion(s, q) == SkipMembers(sect_StartUnion(Enter(s, "StartUnion")), q)

EmitMember(s, m) ==
    LET s1 == sect_Skip(Enter(s, "Skip"), m.pre, TRUE)
        s2 == IF m.inner = <<>> THEN s1 ELSE SkipUnion(s1, m.inner)
    IN  sect_Skip(Enter(s2, "Skip"), m.post, TRUE)

RECURSIVE EmitMembers(_, _)
EmitMembers(s, ms) ==
    LET s1 == EmitMember(s, Head(ms))
    IN  IF Len(ms) = 1 THEN sect_EndUnion(Enter(s1, "EndUnion"))
        ELSE EmitMembers(sect_NextUnionMember(Enter(s1, "NextUnionMember")), Tail(ms))

\* startUnion, the members separated by nextUnionMember, endUnion
EmitUnion(s, ms) == EmitMembers(sect_StartUnion(Enter(s, "StartUnion")), ms)

RECURSIVE MaxMemberSize(_)
MaxMemberSize(ms) ==
    IF ms = <<>> THEN 0 ELSE Max(MemberSize(Head(ms)), MaxMemberSize(Tail(ms)))

Plain(n) == Member(n, <<>>, 0)

\* The unions tried: one member, members in rising and falling order, empty
\* members, members holding a nested union, and scenario S2 (DS 4, DS 7, DS 2)
UnionInputs ==
    {<<Plain(1)>>,
     <<Member(0, <<1, 3>>, 1)>>,
     <<Plain(2), Plain(1)>>,
     <<Plain(0), Plain(0)>>,
     <<Member(1, <<2, 1>>, 0), Plain(2)>>,
     <<Plain(1), Member(1, <<1, 2>>, 1)>>,
     <<Plain(1), Plain(2), Plain(0)>>,
     <<Plain(4), Plain(7), Plain(2)>>}

\* C2: in a non-data section, after startUnion, k >= 1 members of emitted
\* sizes s1..sk (members may hold complete nested unions) separated by
\* nextUnionMember, and endUnion, symbolOffset is the pre-union symbolOffset
\* plus max(s1..sk), the section's size is at least that value, and the UNION
\* stack is as before.
C2_UnionRoundTrip ==
    (/\ ~diag.fatal /\ currentSection # NULL
     /\ ~sect_HasData(sectionList[currentSection].type)) =>
        \A ms \in UnionInputs :
            LET s1 == EmitUnion(State, ms)
            IN  /\ Ok(s1)
                /\ s1.curOffset = curOffset + MaxMemberSize(ms)
                /\ s1.sectionList[currentSection].size >= s1.curOffset
                /\ s1.currentUnionStack = currentUnionStack

\* Inside a UNION, in a member that is shorter than an earlier one: endUnion,
\* which the run still has room for, must return to the start plus the
\* earlier member's size.
C2_Witness ==
    /\ ~diag.fatal /\ steps < MaxSteps
    /\ currentUnionStack # <<>>
    /\ curOffset > Head(currentUnionStack).start
    /\ Head(currentUnionStack).size > curOffset - Head(currentUnionStack).start
    /\ LET s1 == sect_EndUnion(Enter(State, "EndUnion"))
       IN  s1.curOffset = Head(currentUnionStack).start + Head(currentUnionStack).size

----------------------------------------------------------------------------
(* Directives as values, to run a block of them from a state *)

DSection(name, type, mod) == [op |-> "NewSection", name |-> name, type |-> type, mod |-> mod]
DLoad(name, type, mod) == [op |-> "SetLoadSection", name |-> name, type |-> type, mod |-> mod]
DOp(op) == [op |-> op]
DSkip(n) == [op |-> "Skip", n |-> n]
DByte(b) == [op |-> "ConstByte", b |-> b]

Exec(s0, d) ==
    LET s == Enter(s0, d.op)
    IN  CASE d.op = "NewSection" ->
                sect_NewSection(s, d.name, d.type, UINT32_MAX, NoAttrs, d.mod)
          [] d.op = "SetLoadSection" ->
                sect_SetLoadSection(s, d.name, d.type, UINT32_MAX, NoAttrs, d.mod)
          [] d.op = "EndLoadSection" -> sect_EndLoadSection(s, "")
          [] d.op = "ConstByte" -> sect_ConstByte(s, d.b)
          [] d.op = "Skip" -> sect_Skip(s, d.n, TRUE)
          [] d.op = "StartUnion" -> sect_StartUnion(s)
          [] d.op = "NextUnionMember" -> sect_NextUnionMember(s)
          [] d.op = "EndUnion" -> sect_EndUnion(s)
          [] d.op = "PushSection" -> sect_PushSection(s)
          [] d.op = "PopSection" -> sect_PopSection(s)
          [] d.op = "EndSection" -> sect_EndSection(s)
          [] d.op = "PushSectionFragmentLiteral" -> sect_PushSectionFragmentLiteral(s)

RECURSIVE Run(_, _)
\* The directives of `ds` in order; a fatal error ends the process.  The
\* record returned also says whether any directive reported a diagnostic.
Run(s, ds) ==
    IF ds = <<>> \/ s.st.diag.fatal THEN s
    ELSE LET s1 == Exec(s.st, Head(ds))
         IN  Run([st |-> s1,
                  quiet |-> s.quiet /\ s1.diag.nerr = 0 /\ s1.diag.nwarn = 0 /\ ~s1.diag.fatal],
                 Tail(ds))

RunFrom(s, ds) == Run([st |-> s, quiet |-> TRUE], ds)

\* The cursor context, the unit PUSHS saves and POPS restores
Context(s) ==
    [section |-> s.currentSection,
     loadSection |-> s.currentLoadSection,
     labelScopes |-> s.labelScopes,
     offset |-> s.curOffset,
     loadOffset |-> s.loadOffset,
     unionStack |-> s.currentUnionStack]

\* Push/pop-balanced blocks run between a PUSHS and its POPS
InnerBlocks ==
    {<<>>, <<DOp("PushSection"), DOp("PopSection")>>}
        \cup {<<DSection(d.name, d.type, d.mod)>> : d \in DeclInputs}
        \cup {<<DSection(d.name, d.type, "FRAGMENT"), DSkip(2)>> : d \in Decls}
        \cup {<<DSection("A", "ROM0", "FRAGMENT"), DLoad("B", "WRAM0", "FRAGMENT"), DByte(1)>>,
              <<DSection("B", "WRAM0", "FRAGMENT"), DOp("StartUnion"), DSkip(1), DOp("EndUnion")>>,
              <<DSection("B", "WRAM0", "FRAGMENT"), DOp("StartUnion"), DSkip(1)>>}

PushPopRestores(block, mayBeFatal) ==
    LET inner == RunFrom(State, <<DOp("PushSection")>> \o block)
        s2 == Exec(inner.st, DOp("PopSection"))
    IN  ~inner.st.diag.fatal =>
            \/ mayBeFatal /\ s2.diag.fatal
            \/ /\ ~s2.diag.fatal
               /\ Context(s2) = Context(State)
               /\ s2.sectionStack = sectionStack
               \* no diagnostic, but for the warning that ends an open LOAD
               /\ s2.diag.nerr = 0
               /\ inner.st.currentLoadSection = NULL => s2.diag.nwarn = 0

\* S5: PUSHS ... POPS inside an open UNION
ScenarioS5 ==
    <<DSection("A", "WRAM0", "NORMAL"), DOp("StartUnion"), DSkip(3), DOp("PushSection"),
      DSection("B", "WRAM0", "NORMAL"), DSkip(5), DOp("PopSection"),
      DOp("NextUnionMember"), DSkip(1), DOp("EndUnion")>>

InitState ==
    [sectionList |-> <<>>, sectionMap |-> <<>>, currentSection |-> NULL, curOffset |-> 0,
     sectionStack |-> <<>>, currentLoadSection |-> NULL,
     currentLoadLabelScopes |-> NoScopes, loadOffset |-> 0, currentUnionStack |-> <<>>,
     labelScopes |-> NoScopes, diag |-> NoDiag("Init")]

S5Holds ==
    LET r == RunFrom(InitState, ScenarioS5)
    IN  /\ r.quiet
        /\ r.st.sectionList[1].name = "A" /\ r.st.sectionList[1].size = 3
        /\ r.st.sectionList[2].name = "B" /\ r.st.sectionList[2].size = 5
        /\ r.st.curOffset = 3 /\ r.st.currentSection = 1

\* What a step does to the section stack: PUSHS (and a fragment literal) puts
\* the context it leaves on top, a POPS that is not fatal makes the top entry
\* the context, and no other step touches the stack.
StackStep(fatalPop) ==
    LET pushed == diag'.op \in {"PushSection", "PushSectionFragmentLiteral"} /\ ~diag'.fatal
        popped == diag'.op = "PopSection" /\ sectionStack # <<>>
    IN  /\ pushed => sectionStack' = <<Context(State)>> \o sectionStack
        /\ popped =>
               \/ fatalPop /\ diag'.fatal
               \/ ~diag'.fatal /\ Context(State)' = Head(sectionStack)
                               /\ sectionStack' = Tail(sectionStack)
        /\ ~pushed /\ ~popped => sectionStack' = sectionStack

\* C3 as stated: pushSection, a push/pop-balanced block that does not end in a
\* fatal error, then popSection restores the whole cursor context to its value
\* at the push.  Step by step: the entry PUSHS puts on the stack is the context
\* at the push, no later step changes it, and every POPS makes it the context.
C3_AnyBlock == [][StackStep(FALSE)]_vars

\* C3 amended: the same, unless the popSection itself is fatal, which it is
\* when the context it leaves has an open UNION (changeSection); a PUSHS ...
\* POPS block inside an open UNION changes nothing for the following
\* NEXTU/ENDU and raises no diagnostic (but the warning for a LOAD it leaves
\* open).  Checked step by step and, from every state, for the blocks of
\* InnerBlocks and for scenario S5.
C3_PushPopRoundTrip ==
    /\ [](~diag.fatal => \A b \in InnerBlocks : PushPopRestores(b, TRUE))
    /\ [](steps = 0 => S5Holds)
    /\ [][StackStep(TRUE)]_vars

\* A POPS has just returned, without a diagnostic, into an open UNION, and
\* another section holds bytes
C3_Witness ==
    /\ diag = NoDiag("PopSection")
    /\ currentUnionStack # <<>> /\ currentSection # NULL
    /\ \E i \in 1..Len(sectionList) : i # currentSection /\ sectionList[i].size > 0

----------------------------------------------------------------------------
(* FRAGMENT sections and fragment literals: two ROM0 names *)

FragNames == {"A", "F"}

NextFrag ==
    \/ \E n \in FragNames, m \in {"NORMAL", "FRAGMENT"} :
           NewSection(n, "ROM0", UINT32_MAX, NoAttrs, m)
    \/ \E b \in Bytes : ConstByte(b)
    \/ PushSectionFragmentLiteral
    \/ PopSection
    \/ EndSection

SpecFrag == Init /\ [][NextFrag]_vars

\* DB first+1, ..., first+n
BytesFrom(first, n) == [k \in 1..n |-> DByte(first + k)]

\* SECTION FRAGMENT name; a bytes; SECTION FRAGMENT name; b bytes
TwoFragments(name, a, b) ==
    <<DSection(name, "ROM0", "FRAGMENT")>> \o BytesFrom(16, a)
        \o <<DSection(name, "ROM0", "FRAGMENT")>> \o BytesFrom(32, b)

Named(s, name) == {i \in 1..Len(s.sectionList) : s.sectionList[i].name = name}

\* C4: SECTION FRAGMENT name declared, a bytes emitted, SECTION FRAGMENT name
\* (same type) declared again, b bytes emitted: the registry holds a single
\* section of that name, its size is a+b, the first a bytes are in place at
\* 0..a-1 and the bytes of the second declaration at a..a+b-1.  Tried from
\* every state in which the name is new, for the declarations that return.
C4_FragmentConcat ==
    ~diag.fatal =>
        \A name \in FragNames, a \in 0..2, b \in 1..2 :
            name \notin DOMAIN sectionMap /\ ~OnStack(State, name) =>
                LET r == RunFrom(State, TwoFragments(name, a, b))
                    is == Named(r.st, name)
                IN  ~r.st.diag.fatal =>
                    /\ Cardinality(is) = 1
                    /\ \A i \in is :
                           /\ r.st.sectionList[i].size = a + b
                           /\ \A k \in 1..a : DataAt(r.st.sectionList[i], k - 1) = 16 + k
                           /\ \A k \in 1..b : DataAt(r.st.sectionList[i], a + k - 1) = 32 + k

----------------------------------------------------------------------------
(* Declarations with addresses, banks and alignments: one section name,
   declared and re-declared with every combination of the values below,
   with ALIGN directives and bytes in between *)

MaxDeclSteps == 4

DeclName == "S"
DeclTypes == {"ROM0", "ROMX", "HRAM"}

\* no address, the first and second address of the type, the address past its end
Orgs(type) ==
    {UINT32_MAX, sectionTypeInfo[type].startAddr, sectionTypeInfo[type].startAddr + 1,
     endaddr(type) + 1}
Banks == {0, 1}
Alignments == {0, 1, 8, 16, 17}
AlignOffsets == {0, 1}
PCAlignments == {1, 2, 16, 17}
PCAlignOffsets == {0, 1}

DeclRunning == steps < MaxDeclSteps

NextDecl ==
    \/ \E type \in DeclTypes, m \in SectionModifiers,
          alignment \in Alignments, alignOfs \in AlignOffsets :
           \E org \in Orgs(type) :
               /\ DeclRunning
               /\ NewSection(DeclName, type, org,
                             [bank |-> UINT32_MAX, alignment |-> alignment,
                              alignOfs |-> alignOfs], m)
    \/ \E type \in DeclTypes, m \in SectionModifiers, bank \in Banks :
           /\ DeclRunning
           /\ NewSection(DeclName, type, UINT32_MAX, [NoAttrs EXCEPT !.bank = bank], m)
    \/ \E alignment \in PCAlignments, offset \in PCAlignOffsets :
           DeclRunning /\ AlignPC(alignment, offset)
    \/ \E n \in 1..2 : DeclRunning /\ Skip(n, TRUE)
    \/ DeclRunning /\ EndSection

SpecDecl == Init /\ [][NextDecl]_vars

\* C5: after any directive returns, every section of the registry has
\* align < 16 and, when align > 0, alignOfs < 2^align; the declarations drawn
\* include ALIGN[16] and ALIGN[17], the ALIGN directives alignments 16 and 17,
\* and every re-declaration is a UNION or FRAGMENT merge.
C5_AlignBounded ==
    \A i \in 1..Len(sectionList) :
        /\ sectionList[i].align \in 0..15
        /\ sectionList[i].align > 0 =>
               sectionList[i].alignOfs \in 0..(Pow2(sectionList[i].align) - 1)

\* An ALIGN directive past the start of a section has just tightened the
\* section's alignment, with a residue that is not zero
C5_Witness ==
    /\ diag = NoDiag("AlignPC")
    /\ curOffset > 0
    /\ sectionList[currentSection].align = 2
    /\ sectionList[currentSection].alignOfs # 0

\* C6: after any directive returns, every section whose org is set and whose
\* align is > 0 has (org - alignOfs) mod 2^align = 0.
C6_OrgAligned ==
    \A i \in 1..Len(sectionList) :
        sectionList[i].org # UINT32_MAX /\ sectionList[i].align > 0 =>
            Sub32(sectionList[i].org, sectionList[i].alignOfs)
                % Pow2(sectionList[i].align) = 0

\* A re-declaration with a fixed address has just been merged into a section
\* that holds bytes and keeps an alignment
C6_Witness ==
    /\ diag = NoDiag("NewSection")
    /\ \E i \in 1..Len(sectionList) :
           /\ sectionList[i].org # UINT32_MAX
           /\ sectionList[i].align > 0
           /\ sectionList[i].size > 0

\* C7: after any directive returns without a fatal error, every section whose
\* org is set has startAddr(type) <= org <= endAddr(type).
C7_OrgInRange ==
    ~diag.fatal =>
        \A i \in 1..Len(sectionList) :
            sectionList[i].org # UINT32_MAX =>
                /\ ULe(sectionTypeInfo[sectionList[i].type].startAddr, sectionList[i].org)
                /\ ULe(sectionList[i].org, endaddr(sectionList[i].type))

\* C8: after any directive returns without a fatal error, every section whose
\* bank is set has firstBank(type) <= bank <= lastBank(type).  A type that is
\* not ROMX, VRAM, SRAM or WRAMX has the single bank firstBank, the one given
\* implicitly, so a bank set explicitly on such a type shows as a bank out of
\* this range (or as the implicit bank itself).
C8_BankInRange ==
    ~diag.fatal =>
        \A i \in 1..Len(sectionList) :
            sectionList[i].bank # UINT32_MAX =>
                /\ ULe(sectionTypeInfo[sectionList[i].type].firstBank, sectionList[i].bank)
                /\ ULe(sectionList[i].bank, sectionTypeInfo[sectionList[i].type].lastBank)

----------------------------------------------------------------------------
(* Sizes and cursors *)

\* No section leaves the registry and no section's size gets smaller
SizesGrow ==
    /\ Len(sectionList') >= Len(sectionList)
    /\ \A i \in 1..Len(sectionList) : ULe(sectionList[i].size, sectionList'[i].size)

\* C9: for every section, size never decreases across any sequence of
\* directives: no step of any directive (NEXTU/ENDU rewinds, SECTION re-entry,
\* LOAD/ENDL, PUSHS/POPS and fragment literals among them) reduces the size of
\* any section.
C9_SizeMonotone == [][SizesGrow]_vars

\* NEXTU has just rewound the cursor of a section below its size
C9_Witness ==
    /\ diag = NoDiag("NextUnionMember")
    /\ currentSection # NULL
    /\ curOffset < sectionList[sect_GetSymbolSection(State)].size

\* The data buffers of `after` are those of `before`, but for byte `b` at
\* index `idx` of section `c`; a section declared in between holds no byte
StoredAt(before, after, c, idx, b) ==
    /\ Len(after) >= Len(before)
    /\ \A i \in 1..Len(after), k \in 0..(MaxOffset + 1) :
           DataAt(after[i], k) = IF i = c /\ k = idx THEN b
                                 ELSE IF i <= Len(before) THEN DataAt(before[i], k)
                                 ELSE 0

\* What a step does to symbolOffset + loadOffset and to the data buffers: DB
\* stores its byte in the parent (the active section, not the overlay) at
\* index symbolOffset + loadOffset and moves the sum by one; LOAD and ENDL
\* leave the sum and the parent where they are.
OutputStep ==
    LET wrote == diag' = NoDiag("ConstByte")
        load == diag'.op \in {"SetLoadSection", "EndLoadSection"}
                    /\ diag'.nerr = 0 /\ ~diag'.fatal
    IN  /\ wrote =>
               /\ currentSection' = currentSection
               /\ \E b \in Bytes :
                      StoredAt(sectionList, sectionList', currentSection,
                               curOffset + loadOffset, b)
               /\ curOffset' + loadOffset' = curOffset + loadOffset + 1
        /\ load =>
               /\ currentSection' = currentSection
               /\ curOffset' + loadOffset' = curOffset + loadOffset
               /\ StoredAt(sectionList, sectionList', currentSection,
                           curOffset + loadOffset,
                           DataAt(sectionList[currentSection], curOffset + loadOffset))

----------------------------------------------------------------------------
(* Data buffers: a ROMX section filled, PadChunk bytes at a time, up to and
   past the end of its buffer, and a WRAM0 section next to it.  The number of
   directives is not bounded here: the buffer is. *)

PadChunk == 64

BufDecls == {[name |-> "X", type |-> "ROMX"], [name |-> "W", type |-> "WRAM0"]}

\* Bytes left in the active section's buffer after the output offset
BufLeft == sectionList[currentSection].dataSize - sect_GetOutputOffset(State)

\* The model emits single bytes only around the end of the buffer
NearEnd == currentSection # NULL /\ BufLeft \in -1..MaxOffset

BufNewSection(name, type) ==
    /\ ~diag.fatal
    /\ UNCHANGED steps
    /\ Effect(sect_NewSection(Enter(State, "NewSection"), name, type, UINT32_MAX, NoAttrs,
                             "FRAGMENT"))

BufSetLoadSection(name, type) ==
    /\ ~diag.fatal /\ NearEnd
    /\ UNCHANGED steps
    /\ Effect(sect_SetLoadSection(Enter(State, "SetLoadSection"), name, type, UINT32_MAX,
                                 NoAttrs, "FRAGMENT"))

BufEndLoadSection ==
    /\ ~diag.fatal /\ currentLoadSection # NULL
    /\ UNCHANGED steps
    /\ Effect(sect_EndLoadSection(Enter(State, "EndLoadSection"), ""))

BufSkipChunk ==
    /\ ~diag.fatal /\ currentSection # NULL /\ BufLeft >= PadChunk
    /\ UNCHANGED steps
    /\ Effect(sect_Skip(Enter(State, "Skip"), PadChunk, TRUE))

BufSkip(skip) ==
    /\ ~diag.fatal /\ NearEnd
    /\ UNCHANGED steps
    /\ Effect(sect_Skip(Enter(State, "Skip"), skip, TRUE))

BufConstByte(byte) ==
    /\ ~diag.fatal /\ NearEnd
    /\ UNCHANGED steps
    /\ Effect(sect_ConstByte(Enter(State, "ConstByte"), byte))

NextBuf ==
    \/ \E d \in BufDecls : BufNewSection(d.name, d.type)
    \/ \E d \in BufDecls : BufSetLoadSection(d.name, d.type)
    \/ BufEndLoadSection
    \/ BufSkipChunk
    \/ \E n \in 1..2 : BufSkip(n)
    \/ \E b \in Bytes : BufConstByte(b)

SpecBuf == Init /\ [][NextBuf]_vars

\* The length a section's buffer is created with
BufferLength(type) == IF sect_HasData(type) THEN sectionTypeInfo[type].size ELSE 0

\* Every buffer has the length of its type, and holds bytes only below it
BuffersSized ==
    \A i \in 1..Len(sectionList) :
        /\ sectionList[i].dataSize = BufferLength(sectionList[i].type)
        /\ \A k \in DOMAIN sectionList[i].data : k >= 0 /\ k < sectionList[i].dataSize

\* A step never changes the length of a buffer; Skip in a section without data
\* and a byte written at or past the end of the buffer leave every buffer as
\* it is and move the size and the cursor.
BufferStep ==
    LET c == currentSection
        out == curOffset + loadOffset
        emitted == diag' \in {NoDiag("Skip"), NoDiag("ConstByte")}
        outside == emitted /\ out >= sectionList[c].dataSize
    IN  /\ \A i \in 1..Len(sectionList) :
               sectionList'[i].dataSize = sectionList[i].dataSize
        /\ outside =>
               /\ \A i \in 1..Len(sectionList) : sectionList'[i].data = sectionList[i].data
               /\ curOffset' > curOffset
               /\ sectionList'[c].size = curOffset' + loadOffset'
               /\ sectionList'[c].size > sectionList[c].size

\* C11: data buffers never change length: the buffer of a ROM0/ROMX section
\* has the length of its type's maximum size and the buffer of any other
\* section stays empty; Skip in a section without data changes only
\* size/symbolOffset, and a byte written at an output offset >= the buffer
\* length is dropped while size still grows.
C11_BufferLength == []BuffersSized /\ [][BufferStep]_vars

\* A byte has just been emitted at the index one past the last of the ROMX
\* buffer
C11_Witness ==
    /\ diag = NoDiag("ConstByte")
    /\ sectionList[currentSection].type = "ROMX"
    /\ curOffset + loadOffset = sectionList[currentSection].dataSize + 1
    /\ sectionList[currentSection].size = sectionList[currentSection].dataSize + 1

----------------------------------------------------------------------------
(* The emitters: strings, expressions, JR offsets and binary files in a ROM0
   section, in a WRAM0 section, in a LOAD block and outside any section *)

MaxEmitSteps == 4

ByteString(str) ==
    Running /\ Apply(sect_ByteString(Enter(State, "ByteString"), str))

WordString(str) ==
    Running /\ Apply(sect_WordString(Enter(State, "WordString"), str))

LongString(str) ==
    Running /\ Apply(sect_LongString(Enter(State, "LongString"), str))

RelByte(expr, pcShift) ==
    Running /\ Apply(sect_RelByte(Enter(State, "RelByte"), expr, pcShift))

RelBytes(n, exprs) ==
    Running /\ Apply(sect_RelBytes(Enter(State, "RelBytes"), n, exprs))

RelWord(expr, pcShift) ==
    Running /\ Apply(sect_RelWord(Enter(State, "RelWord"), expr, pcShift))

RelLong(expr, pcShift) ==
    Running /\ Apply(sect_RelLong(Enter(State, "RelLong"), expr, pcShift))

PCRelByte(expr, pcShift) ==
    Running /\ Apply(sect_PCRelByte(Enter(State, "PCRelByte"), expr, pcShift))

BinaryFile(file, startPos) ==
    Running /\ Apply(sect_BinaryFile(Enter(State, "BinaryFile"), file, startPos))

\* Expressions: a known integer, an expression the linker has to resolve, the
\* PC symbol, a label of the symbol section at an offset
KnownExpr(v) ==
    [id |-> "known", known |-> TRUE, value |-> v, diffConstant |-> FALSE, isPC |-> FALSE,
     symOffset |-> 0]
UnknownExpr(id) ==
    [id |-> id, known |-> FALSE, value |-> 0, diffConstant |-> FALSE, isPC |-> FALSE,
     symOffset |-> 0]
PCExpr ==
    [id |-> "pc", known |-> FALSE, value |-> 0, diffConstant |-> TRUE, isPC |-> TRUE,
     symOffset |-> 0]
LabelExpr(offset) ==
    [id |-> "label", known |-> FALSE, value |-> 0, diffConstant |-> TRUE, isPC |-> FALSE,
     symOffset |-> offset]

Exprs == {KnownExpr(4660), UnknownExpr("e1"), UnknownExpr("e2")}
LongExprs == {KnownExpr(305419896), UnknownExpr("e1")}
JumpExprs == {PCExpr, LabelExpr(0), LabelExpr(200), UnknownExpr("e1")}
ByteStrings == {<<65, 300>>}
WordStrings == {<<4660>>}
LongStrings == {<<305419896>>}
Files ==
    {[found |-> FALSE, seekable |-> FALSE, espipe |-> FALSE, bytes |-> <<>>],
     [found |-> TRUE, seekable |-> TRUE, espipe |-> FALSE, bytes |-> <<1, 2>>],
     [found |-> TRUE, seekable |-> FALSE, espipe |-> TRUE, bytes |-> <<1, 2>>],
     [found |-> TRUE, seekable |-> FALSE, espipe |-> FALSE, bytes |-> <<1, 2>>]}
StartPositions == {0, 1, 3}

EmitRunning == steps < MaxEmitSteps

NextEmit ==
    \/ \E d \in Decls : EmitRunning /\ NewSection(d.name, d.type, UINT32_MAX, NoAttrs, "FRAGMENT")
    \/ \E d \in Decls :
           EmitRunning /\ SetLoadSection(d.name, d.type, UINT32_MAX, NoAttrs, "FRAGMENT")
    \/ EmitRunning /\ EndLoadSection
    \/ EmitRunning /\ EndSection
    \/ \E b \in Bytes : EmitRunning /\ ConstByte(b)
    \/ EmitRunning /\ Skip(1, TRUE)
    \/ \E alignment \in {1, 17} : EmitRunning /\ AlignPC(alignment, 1)
    \/ \E str \in ByteStrings : EmitRunning /\ ByteString(str)
    \/ \E str \in WordStrings : EmitRunning /\ WordString(str)
    \/ \E str \in LongStrings : EmitRunning /\ LongString(str)
    \/ \E expr \in Exprs : EmitRunning /\ RelByte(expr, 1)
    \/ EmitRunning /\ RelBytes(3, <<KnownExpr(7), UnknownExpr("e1")>>)
    \/ \E expr \in Exprs : EmitRunning /\ RelWord(expr, 1)
    \/ \E expr \in LongExprs : EmitRunning /\ RelLong(expr, 1)
    \/ \E expr \in JumpExprs : EmitRunning /\ PCRelByte(expr, 1)
    \/ \E file \in Files, startPos \in StartPositions : EmitRunning /\ BinaryFile(file, startPos)

SpecEmit == Init /\ [][NextEmit]_vars

\* The directives that write bytes, and those that only need a section
ByteEmitters ==
    {"ConstByte", "ByteString", "WordString", "LongString", "RelByte", "RelBytes",
     "RelWord", "RelLong", "PCRelByte", "BinaryFile"}
SectionEmitters == {"Skip", "AlignPC"}

\* The registry, the cursor, the overlay and the stacks
Engine ==
    <<sectionList, sectionMap, currentSection, curOffset, sectionStack, currentLoadSection,
      currentLoadLabelScopes, loadOffset, currentUnionStack, labelScopes>>

\* A step of an emitter whose predicate fails
RejectedStep ==
    \/ diag'.op \in ByteEmitters /\ ~(currentSection # NULL
                                       /\ sect_HasData(sectionList[currentSection].type))
    \/ diag'.op \in SectionEmitters /\ currentSection = NULL

\* C12: every byte-emitting operation called with no active section, or with
\* an active section that is not ROM0/ROMX when bytes are to be written (for
\* Skip and alignPC: with no active section), reports an error and leaves the
\* registry, the cursor, the overlay and the stacks unchanged.
C12_RejectedEmission ==
    [][RejectedStep =>
           /\ diag'.nerr = 1 /\ diag'.nwarn = 0 /\ ~diag'.fatal
           /\ UNCHANGED Engine]_vars

\* An expression has just been refused in a WRAM0 section that has a size
C12_Witness ==
    /\ diag.op = "RelWord" /\ diag.nerr = 1
    /\ currentSection # NULL
    /\ sectionList[currentSection].type = "WRAM0"
    /\ sectionList[currentSection].size > 0

\* C13: whenever a directive reports an error that is not fatal, the directive
\* is skipped: the registry (sections, their constraints, sizes, data and
\* patches), the cursor, the LOAD overlay, the UNION stack and the section
\* stack are the same after the directive as before it.
C13_ErrorSkips ==
    [][diag'.nerr > 0 /\ ~diag'.fatal => UNCHANGED Engine]_vars

----------------------------------------------------------------------------
(* Nested contexts *)

\* The sections a context holds: its active section and its LOAD overlay
Held(section, loadSection) == {section, loadSection} \ {NULL}

HeldByEntry(k) == Held(sectionStack[k].section, sectionStack[k].loadSection)

\* The sections of the saved contexts
Suspended == UNION {HeldByEntry(k) : k \in 1..Len(sectionStack)}

\* No section of a saved context is held by the live context or by another
\* saved context
NotTwice ==
    \A k \in 1..Len(sectionStack) :
        /\ HeldByEntry(k) \cap Held(currentSection, currentLoadSection) = {}
        /\ \A j \in 1..Len(sectionStack) : j # k => HeldByEntry(k) \cap HeldByEntry(j) = {}

\* C14: a section may not appear twice in nested contexts: a section that is
\* the active section or the LOAD overlay of a context saved on the section
\* stack is never at the same time the active section or LOAD overlay of the
\* live context or of another saved context, so that no step makes its size
\* grow while it is suspended.
C14_NotTwiceNested ==
    /\ [](~diag.fatal => NotTwice)
    /\ [][~diag'.fatal =>
              \A i \in Suspended : sectionList'[i].size = sectionList[i].size]_vars

----------------------------------------------------------------------------
(* SECTION switches *)

\* The SECTION directives tried from every state
SwitchInputs ==
    DeclInputs \cup {[name |-> n, type |-> "ROM0", mod |-> m] :
                         n \in FragNames, m \in SectionModifiers}

AfterNewSection(d) ==
    sect_NewSection(Enter(State, "NewSection"), d.name, d.type, UINT32_MAX, NoAttrs, d.mod)

\* C15: after a successful newSection(name, type, org, attrs, modifier) the
\* named section is the active section, no LOAD overlay is active (an active
\* one was terminated with a warning), loadOffset = 0, and symbolOffset = 0
\* if the modifier is UNION, otherwise the section's size.
C15_NewSectionPost ==
    ~diag.fatal =>
        \A d \in SwitchInputs :
            LET s1 == AfterNewSection(d)
            IN  Ok(s1) =>
                    /\ s1.currentSection # NULL
                    /\ s1.sectionList[s1.currentSection].name = d.name
                    /\ s1.currentLoadSection = NULL
                    /\ s1.diag.nwarn = IF currentLoadSection # NULL THEN 1 ELSE 0
                    /\ s1.loadOffset = 0
                    /\ s1.curOffset = IF d.mod = "UNION" THEN 0
                                      ELSE s1.sectionList[s1.currentSection].size

InUnion == currentUnionStack # <<>>

\* Every SECTION directive and ENDSECTION is fatal in the state
SwitchIsFatal ==
    /\ \A d \in SwitchInputs : AfterNewSection(d).diag.fatal
    /\ sect_EndSection(Enter(State, "EndSection")).diag.fatal

\* The live context was saved whole by the step
ContextSaved ==
    /\ Len(sectionStack') = Len(sectionStack) + 1
    /\ sectionStack'[1].section = currentSection
    /\ sectionStack'[1].unionStack = currentUnionStack
    /\ currentUnionStack' = <<>>

\* C16: newSection and endSection are fatal while the live UNION stack is
\* non-empty, so the active section of a context is never replaced inside a
\* UNION block (it can only be saved whole by PUSHS), and a successful
\* endSection clears the active section and leaves the section stack alone.
C16_UnionPinsSection ==
    /\ [](~diag.fatal /\ InUnion => SwitchIsFatal)
    /\ [][InUnion /\ ~diag'.fatal /\ currentSection' # currentSection => ContextSaved]_vars
    /\ [][diag'.op = "EndSection" /\ ~diag'.fatal
              => currentSection' = NULL /\ sectionStack' = sectionStack]_vars

\* a SECTION directive was refused inside a UNION block
C16_Witness ==
    /\ diag.op = "NewSection" /\ diag.fatal
    /\ InUnion /\ currentSection # NULL

----------------------------------------------------------------------------
(* UNION against LOAD *)

\* A context, live or saved: its section, its LOAD overlay, its UNION stack
Apart(section, loadSection, unionStack) ==
    /\ ~(unionStack # <<>> /\ loadSection # NULL)
    /\ unionStack # <<>> =>
           section # NULL /\ ~sect_HasData(sectionList[section].type)
    /\ loadSection # NULL =>
           section # NULL /\ sect_HasData(sectionList[section].type)

\* C17: UNION and LOAD never coexist. In the live context and in every
\* context saved on the section stack, the UNION stack is never non-empty
\* while a LOAD overlay is active; a non-empty UNION stack implies an active
\* section of a type without data, an active LOAD an active section of a
\* type with data.
C17_UnionLoadApart ==
    /\ Apart(currentSection, currentLoadSection, currentUnionStack)
    /\ \A k \in 1..Len(sectionStack) :
           Apart(sectionStack[k].section, sectionStack[k].loadSection,
                 sectionStack[k].unionStack)

\* a UNION block suspended by PUSHS and a LOAD block opened after it
C17_Witness ==
    /\ ~diag.fatal
    /\ currentLoadSection # NULL
    /\ \E k \in 1..Len(sectionStack) : sectionStack[k].unionStack # <<>>

----------------------------------------------------------------------------
(* Bytes inside a LOAD block *)

InLoad == currentLoadSection # NULL

\* The overlay's size after n bytes: raised to symbolOffset (growSection)
RaisedToCursor(n) ==
    sectionList'[currentLoadSection].size =
        Max(sectionList[currentLoadSection].size, curOffset + n)

\* The overlay's size after n bytes: n more than before
GrownByBytes(n) ==
    sectionList'[currentLoadSection].size = sectionList[currentLoadSection].size + n

\* What the steps of a LOAD block do. LOAD leaves the parent and its output
\* offset where they are and starts symbolOffset at the overlay's size (0 for
\* UNION); DB and DS inside the block store in the parent at symbolOffset +
\* loadOffset, move symbolOffset by the bytes emitted and keep loadOffset;
\* ENDL gives the parent's output offset back as the cursor.
LoadStep(overlaySize(_)) ==
    LET opened == diag' = NoDiag("SetLoadSection")
        emitted == InLoad /\ diag' \in {NoDiag("ConstByte"), NoDiag("Skip")}
        closed == InLoad /\ diag' = NoDiag("EndLoadSection")
    IN  /\ opened =>
               /\ currentSection' = currentSection
               /\ currentLoadSection' # NULL
               /\ curOffset' + loadOffset' = curOffset + (IF InLoad THEN loadOffset ELSE 0)
        /\ emitted =>
               /\ currentSection' = currentSection
               /\ currentLoadSection' = currentLoadSection
               /\ loadOffset' = loadOffset
               /\ curOffset' > curOffset
               /\ diag'.op = "ConstByte" =>
                      /\ curOffset' = curOffset + 1
                      /\ \E b \in Bytes :
                             StoredAt(sectionList, sectionList', currentSection,
                                      curOffset + loadOffset, b)
               /\ overlaySize(curOffset' - curOffset)
        /\ closed =>
               /\ currentSection' = currentSection
               /\ currentLoadSection' = NULL
               /\ loadOffset' = 0
               /\ curOffset' = curOffset + loadOffset

\* Labels inside a LOAD block belong to the overlay, at symbolOffset
LoadSymbols ==
    InLoad /\ ~diag.fatal =>
        /\ sect_GetSymbolSection(State) = currentLoadSection
        /\ sect_GetSymbolSection(State) # currentSection
        /\ sect_GetSymbolOffset(State) = curOffset
        /\ sect_GetOutputOffset(State) = curOffset + loadOffset

\* C18 as stated: while a LOAD overlay is active each emitted byte is stored
\* in the parent's data at symbolOffset + loadOffset, the symbol section is
\* the overlay with offset symbolOffset, the overlay's size grows by the
\* number of bytes emitted, and after endLoadSection the parent's cursor is
\* the pre-LOAD cursor plus the bytes emitted.
C18_OverlayGrowsByBytes == []LoadSymbols /\ [][LoadStep(GrownByBytes)]_vars

\* C18, amended: the same, but the overlay's size is raised to symbolOffset;
\* it grows by the number of bytes emitted only from the point where
\* symbolOffset reaches the overlay's size (at once unless the overlay was
\* opened with the UNION modifier, where symbolOffset starts at 0).
C18_LoadBytes ==
    /\ []LoadSymbols
    /\ [][LoadStep(RaisedToCursor)]_vars
    /\ [][InLoad /\ diag' \in {NoDiag("ConstByte"), NoDiag("Skip")}
              /\ curOffset >= sectionList[currentLoadSection].size
              => GrownByBytes(curOffset' - curOffset)]_vars

\* ENDL after bytes emitted inside a LOAD block whose cursor differs from the
\* parent's: the cursor is the parent's again
C18_Witness ==
    /\ diag = NoDiag("EndLoadSection")
    /\ currentSection # NULL /\ currentLoadSection = NULL
    /\ \E i \in 1..Len(sectionList) :
           /\ ~sect_HasData(sectionList[i].type)
           /\ sectionList[i].size > 0
           /\ sectionList[i].size # curOffset
    /\ curOffset = sectionList[currentSection].size
    /\ curOffset > 1

----------------------------------------------------------------------------
(* POPS *)

AfterPop == sect_PopSection(Enter(State, "PopSection"))

\* POPS terminated the active LOAD with a warning and made the most recently
\* pushed snapshot the live context
PopRestores ==
    LET s1 == AfterPop
        entry == Head(sectionStack)
    IN  /\ s1.diag.nerr = 0
        /\ s1.diag.nwarn = IF InLoad THEN 1 ELSE 0
        /\ s1.sectionStack = Tail(sectionStack)
        /\ s1.currentSection = entry.section
        /\ s1.currentLoadSection = entry.loadSection
        /\ s1.labelScopes = entry.labelScopes
        /\ s1.curOffset = entry.offset
        /\ s1.loadOffset = entry.loadOffset
        /\ s1.currentUnionStack = entry.unionStack
        /\ s1.sectionList = sectionList

\* C19 as stated: popSection is fatal only when the section stack is empty;
\* with a non-empty stack it terminates an active LOAD with a warning and
\* restores the most recently pushed snapshot, also when a UNION stack is
\* non-empty.
C19_PopFatalOnlyEmpty ==
    ~diag.fatal =>
        /\ AfterPop.diag.fatal <=> sectionStack = <<>>
        /\ sectionStack # <<>> => PopRestores

\* C19, amended: popSection is fatal when the section stack is empty and when
\* the UNION stack of the live context is non-empty; otherwise it terminates
\* an active LOAD with a warning and restores the most recently pushed
\* snapshot, whose own UNION stack may be non-empty.
C19_PopSection ==
    ~diag.fatal =>
        /\ AfterPop.diag.fatal <=> (sectionStack = <<>> \/ InUnion)
        /\ ~AfterPop.diag.fatal => PopRestores

\* POPS has just terminated a LOAD and gone back to a saved context that has
\* an open UNION
C19_Witness ==
    /\ diag = [NoDiag("PopSection") EXCEPT !.nwarn = 1]
    /\ InUnion /\ currentSection # NULL
    /\ sectionStack = <<>>

----------------------------------------------------------------------------
(* Re-declarations *)

\* The declarations tried against the registry of every state
RedeclInputs ==
    {[name |-> n, type |-> type, mod |-> m] :
         n \in {"A", "B", "F", DeclName},
         type \in {"ROM0", "ROMX", "WRAM0", "HRAM"},
         m \in SectionModifiers}

AfterDecl(d) ==
    getSection(Enter(State, "NewSection"), d.name, d.type, UINT32_MAX, NoAttrs, d.mod).st

\* The sections that bear the name
Bearing(name) == {i \in 1..Len(sectionList) : sectionList[i].name = name}

\* The declaration differs in type or modifier from section i, or is NORMAL
Clashes(d, i) ==
    \/ d.type # sectionList[i].type
    \/ d.mod # sectionList[i].modifier
    \/ d.mod = "NORMAL"

SubErrors(d, i) ==
    (IF d.type # sectionList[i].type THEN 1 ELSE 0)
        + (IF d.mod # sectionList[i].modifier \/ d.mod = "NORMAL" THEN 1 ELSE 0)

\* C20: re-declaring an existing section name with a different type, with a
\* different modifier, or with modifier NORMAL always ends in a fatal error,
\* reported after the sub-errors were counted; a re-declaration that returns
\* normally changes no section's type or modifier.
C20_Redeclaration ==
    ~diag.fatal =>
        \A d \in RedeclInputs : \A i \in Bearing(d.name) :
            LET s1 == AfterDecl(d)
            IN  /\ Clashes(d, i) => s1.diag.fatal /\ s1.diag.nerr >= SubErrors(d, i)
                /\ ~s1.diag.fatal =>
                       \A k \in 1..Len(sectionList) :
                           /\ s1.sectionList[k].type = sectionList[k].type
                           /\ s1.sectionList[k].modifier = sectionList[k].modifier

----------------------------------------------------------------------------
(* UNION and FRAGMENT merges: one banked RAM section, declared and
   re-declared with addresses, alignments and banks, and grown in between *)

MaxMergeSteps == 4

MergeType == "WRAMX"
MergeModifiers == {"UNION", "FRAGMENT"}
MergeOrgs ==
    {UINT32_MAX} \cup {sectionTypeInfo[MergeType].startAddr + k : k \in 0..2}
MergeAlignments == {0, 1, 2}
MergeAlignOffsets == {0, 1, 3}
MergeBanks == {UINT32_MAX, 1, 2}

MergeRunning == steps < MaxMergeSteps

NextMerge ==
    \/ \E m \in MergeModifiers, org \in MergeOrgs,
          alignment \in MergeAlignments, alignOfs \in MergeAlignOffsets :
           /\ MergeRunning
           /\ NewSection(DeclName, MergeType, org,
                         [bank |-> UINT32_MAX, alignment |-> alignment,
                          alignOfs |-> alignOfs], m)
    \/ \E m \in MergeModifiers, bank \in MergeBanks :
           /\ MergeRunning
           /\ NewSection(DeclName, MergeType, UINT32_MAX, [NoAttrs EXCEPT !.bank = bank], m)
    \/ MergeRunning /\ Skip(1, TRUE)

SpecMerge == Init /\ [][NextMerge]_vars

\* The declarations tried against the section of every state
MergeInputs ==
    {[org |-> org, alignment |-> alignment, alignOfs |-> alignOfs] :
         org \in MergeOrgs, alignment \in MergeAlignments, alignOfs \in MergeAlignOffsets}

\* A declaration getSection has nothing to say against: the offset is below
\* the alignment size, and a fixed address agrees with the alignment
ValidDecl(d) ==
    /\ d.alignOfs < Pow2(d.alignment)
    /\ d.org # UINT32_MAX /\ d.alignment # 0 =>
           (d.org - d.alignOfs) % Pow2(d.alignment) = 0

\* Start address a satisfies the constraints (org, align, alignOfs)
Satisfies(a, org, align, alignOfs) ==
    /\ org # UINT32_MAX => a = org
    /\ align # 0 => (a - alignOfs) % Pow2(align) = 0

\* Two periods of the largest alignment drawn, from the start of the type
StartAddrs ==
    {sectionTypeInfo[MergeType].startAddr + k : k \in 0..(2 * Pow2(2) - 1)}

AfterMerge(d, mod) ==
    getSection(Enter(State, "NewSection"), DeclName, MergeType, d.org,
               [bank |-> UINT32_MAX, alignment |-> d.alignment, alignOfs |-> d.alignOfs],
               mod).st

\* C21: a UNION re-declaration that returns normally leaves S with the
\* strictest compatible constraints: a start address satisfies S's resulting
\* (org, align, alignOfs) if and only if it satisfies S's previous constraints
\* and those of the declaration; when no address satisfies both, the merge is
\* fatal.
C21_UnionStrictest ==
    ~diag.fatal =>
        \A i \in 1..Len(sectionList) : \A d \in MergeInputs :
            sectionList[i].modifier = "UNION" /\ ValidDecl(d) =>
                LET S == sectionList[i]
                    s1 == AfterMerge(d, "UNION")
                    R == s1.sectionList[i]
                    Both(a) == /\ Satisfies(a, S.org, S.align, S.alignOfs)
                               /\ Satisfies(a, d.org, d.alignment, d.alignOfs)
                IN  /\ ~s1.diag.fatal =>
                           \A a \in StartAddrs :
                               Satisfies(a, R.org, R.align, R.alignOfs) <=> Both(a)
                    /\ (\A a \in StartAddrs : ~Both(a)) => s1.diag.fatal

\* A UNION section aligned to 4 bytes with offset 1 has been fixed by a
\* re-declaration at an address that agrees with the alignment
C21_Witness ==
    /\ diag = NoDiag("NewSection")
    /\ \E i \in 1..Len(sectionList) :
           /\ sectionList[i].modifier = "UNION"
           /\ sectionList[i].align = 2 /\ sectionList[i].alignOfs = 1
           /\ sectionList[i].org # UINT32_MAX

----------------------------------------------------------------------------
(* The registry *)

\* C22: UNION is forbidden for the types with data: after any sequence of
\* directives that does not end in a fatal error, no section of the registry
\* has modifier UNION together with type ROM0 or ROMX, be it by its first
\* declaration or by a re-declaration.
C22_NoRomUnion ==
    ~diag.fatal =>
        \A i \in 1..Len(sectionList) :
            ~(sectionList[i].modifier = "UNION" /\ sect_HasData(sectionList[i].type))

----------------------------------------------------------------------------
(* Scenario S3: one ROMX section "F", declared with and without ALIGN[4] and
   FRAGMENT, and the bytes $AA, $BB, $CC *)

MaxS3Steps == 5

S3Name == "F"
S3Type == "ROMX"
S3Alignments == {0, 4}
S3Modifiers == {"NORMAL", "FRAGMENT"}
S3Bytes == {170, 187, 204}

NextS3 ==
    \/ \E alignment \in S3Alignments, m \in S3Modifiers :
           /\ steps < MaxS3Steps
           /\ NewSection(S3Name, S3Type, UINT32_MAX,
                         [NoAttrs EXCEPT !.alignment = alignment], m)
    \/ \E b \in S3Bytes : steps < MaxS3Steps /\ ConstByte(b)

SpecS3 == Init /\ [][NextS3]_vars

\* The next directive of a run, unless the run has ended in a fatal error
ThenSection(s, alignment, mod) ==
    IF s.diag.fatal THEN s
    ELSE sect_NewSection(Enter(s, "NewSection"), S3Name, S3Type, UINT32_MAX,
                         [NoAttrs EXCEPT !.alignment = alignment], mod)

ThenByte(s, b) ==
    IF s.diag.fatal THEN s ELSE sect_ConstByte(Enter(s, "ConstByte"), b)

\* SECTION <mod> "F",ROMX,ALIGN[4] / DB $AA
S3Start(mod) == ThenByte(ThenSection(State, 4, mod), 170)

\* ... / SECTION FRAGMENT "F",ROMX / DB $BB,$CC
S3After(mod) == ThenByte(ThenByte(ThenSection(S3Start(mod), 0, "FRAGMENT"), 187), 204)

\* One section F, size 3, data $AA,$BB,$CC, align 4, alignOfs 0
S3Expected(s) ==
    /\ ~s.diag.fatal /\ s.diag.nerr = 0
    /\ Len(s.sectionList) = 1
    /\ s.sectionList[1].name = S3Name
    /\ s.sectionList[1].size = 3
    /\ DataAt(s.sectionList[1], 0) = 170
    /\ DataAt(s.sectionList[1], 1) = 187
    /\ DataAt(s.sectionList[1], 2) = 204
    /\ s.sectionList[1].align = 4
    /\ s.sectionList[1].alignOfs = 0

\* C23 as stated: scenario S3, SECTION "F",ROMX,ALIGN[4]; DB $AA; SECTION
\* FRAGMENT "F",ROMX; DB $BB,$CC, completes without a fatal error and yields
\* one section F with size 3, data $AA,$BB,$CC, align 4 and alignOfs 0.
\* Run from the state before the first directive.
C23_ScenarioS3 == steps = 0 => S3Expected(S3After("NORMAL"))

\* C23, amended: the scenario as written ends in a fatal error at SECTION
\* FRAGMENT "F", with F left at size 1, because F was declared without a
\* modifier; when the first declaration is SECTION FRAGMENT "F",ROMX,ALIGN[4]
\* the directives complete and yield the section expected.
C23_FragmentAppend ==
    steps = 0 =>
        /\ S3After("NORMAL").diag.fatal
        /\ S3After("NORMAL").sectionList = S3Start("NORMAL").sectionList
        /\ S3Start("NORMAL").sectionList[1].size = 1
        /\ S3Expected(S3After("FRAGMENT"))

\* The directives of the amended scenario have been processed
C23_Witness ==
    /\ diag = NoDiag("ConstByte")
    /\ steps = 5
    /\ currentSection = 1 /\ curOffset = 3
    /\ sectionList[1].modifier = "FRAGMENT"
    /\ S3Expected(State)

----------------------------------------------------------------------------
(* Patches *)

\* The patches one directive records are those of RelBytes, one per byte, in
\* the order of their pcShift
Earlier(p, q) == p.pcShift < q.pcShift

\* The step kept the patches `old` and put the ones it recorded behind them,
\* earliest first
AppendedTo(old, new) ==
    /\ Len(new) >= Len(old)
    /\ SubSeq(new, 1, Len(old)) = old
    /\ \A j \in (Len(old) + 1)..(Len(new) - 1) : Earlier(new[j], new[j + 1])

\* The step kept the patches `old` and put the ones it recorded before them,
\* latest first
PrependedTo(old, new) ==
    /\ Len(new) >= Len(old)
    /\ SubSeq(new, Len(new) - Len(old) + 1, Len(new)) = old
    /\ \A j \in 1..(Len(new) - Len(old) - 1) : Earlier(new[j + 1], new[j])

Recorded(i) ==
    SubSeq(sectionList'[i].patches, 1,
           Len(sectionList'[i].patches) - Len(sectionList[i].patches))

\* The index of a patch's first placeholder byte: the output offset before
\* the directive, plus the bytes RelBytes wrote before it
PlaceholderAt(patch) ==
    curOffset + loadOffset + (IF diag'.op = "RelBytes" THEN patch.pcShift ELSE 0)

\* C25: a patch recorded while a LOAD overlay is active is added to the patch
\* list of the parent (the active section), never to the overlay's, and its
\* offset is symbolOffset + loadOffset as it was before the placeholder zero
\* bytes were written, the index in the parent's data buffer of the first
\* placeholder byte.
C25_PatchInParent ==
    [][InLoad /\ ~diag'.fatal =>
           /\ \A i \in 1..Len(sectionList) :
                  i # currentSection => sectionList'[i].patches = sectionList[i].patches
           /\ LET new == Recorded(currentSection)
              IN  \A j \in 1..Len(new) :
                      /\ new[j].offset = PlaceholderAt(new[j])
                      /\ new[j].offset >= 0
                      /\ DataAt(sectionList'[currentSection], new[j].offset) = 0]_vars

\* A word patch has just been recorded inside a LOAD block whose cursor
\* differs from the parent's
C25_Witness ==
    /\ diag = NoDiag("RelWord")
    /\ InLoad /\ loadOffset # 0
    /\ sectionList[currentLoadSection].patches = <<>>
    /\ sectionList[currentSection].patches # <<>>
    /\ Head(sectionList[currentSection].patches).type = "WORD"
    /\ Head(sectionList[currentSection].patches).offset = curOffset + loadOffset - 2

----------------------------------------------------------------------------
(* Expressions of 1, 2 and 4 bytes *)

Widths == {1, 2, 4}

PatchKind(w) == CASE w = 1 -> "BYTE" [] w = 2 -> "WORD" [] w = 4 -> "LONG"

\* The expressions tried in every state: known values, a negative one among
\* them, and unknown ones
RelExprs == Exprs \cup LongExprs \cup {KnownExpr(-2)}
RelLists == {<<KnownExpr(7), UnknownExpr("e1")>>, <<UnknownExpr("e1"), UnknownExpr("e2")>>}
RelShift == 1

AfterRel(w, expr) ==
    CASE w = 1 -> sect_RelByte(Enter(State, "RelByte"), expr, RelShift)
      [] w = 2 -> sect_RelWord(Enter(State, "RelWord"), expr, RelShift)
      [] w = 4 -> sect_RelLong(Enter(State, "RelLong"), expr, RelShift)

InCode == currentSection # NULL /\ sect_HasData(sectionList[currentSection].type)

\* The output offset of a state of the run
OutputAt == curOffset + loadOffset

\* RelByte/RelWord/RelLong: the value in w bytes, least significant first, and
\* no patch; or one patch of the kind and w zero bytes
RelStores(w, expr) ==
    LET s1 == AfterRel(w, expr)
        S == sectionList[currentSection]
        R == s1.sectionList[currentSection]
    IN  ~s1.diag.fatal =>
            /\ s1.diag.nerr = 0
            /\ s1.curOffset = curOffset + w
            /\ s1.loadOffset = loadOffset
            /\ \A i \in 1..Len(sectionList) :
                   i # currentSection => s1.sectionList[i].patches = sectionList[i].patches
            /\ IF expr.known
               THEN /\ R.patches = S.patches
                    /\ \A k \in 0..(w - 1) :
                           DataAt(R, OutputAt + k) = ByteOf(expr.value, k)
               ELSE /\ R.patches = <<[type |-> PatchKind(w), expr |-> expr,
                                      offset |-> OutputAt, pcShift |-> RelShift]>>
                                       \o S.patches
                    /\ \A k \in 0..(w - 1) : DataAt(R, OutputAt + k) = 0

\* RelBytes(n, exprs): byte i is that of exprs[i mod length], or zero with a
\* BYTE patch whose pcShift is i
RelBytesStores(n, exprs) ==
    LET s1 == sect_RelBytes(Enter(State, "RelBytes"), n, exprs)
        S == sectionList[currentSection]
        R == s1.sectionList[currentSection]
        new == SubSeq(R.patches, 1, Len(R.patches) - Len(S.patches))
        unknown == {i \in 0..(n - 1) : ~exprs[(i % Len(exprs)) + 1].known}
    IN  ~s1.diag.fatal =>
            /\ s1.diag.nerr = 0
            /\ s1.curOffset = curOffset + n
            /\ Len(R.patches) = Len(S.patches) + Cardinality(unknown)
            /\ SubSeq(R.patches, Len(new) + 1, Len(R.patches)) = S.patches
            /\ \A i \in 0..(n - 1) :
                   LET expr == exprs[(i % Len(exprs)) + 1]
                   IN  IF expr.known
                       THEN DataAt(R, OutputAt + i) = ByteOf(expr.value, 0)
                       ELSE /\ DataAt(R, OutputAt + i) = 0
                            /\ \E j \in 1..Len(new) :
                                   new[j] = [type |-> "BYTE", expr |-> expr,
                                             offset |-> OutputAt + i, pcShift |-> i]

\* C26: in a section with data, RelByte/RelWord/RelLong with a known
\* expression store its value little-endian in 1/2/4 bytes and record no
\* patch; with an unknown expression they record exactly one patch of kind
\* BYTE/WORD/LONG and store 1/2/4 zero bytes; symbolOffset advances by the
\* width in both cases, and RelBytes(n, exprs) advances by n, the pcShift of
\* each patch being the index of its byte.
C26_RelEmission ==
    ~diag.fatal /\ InCode =>
        /\ \A w \in Widths, expr \in RelExprs : RelStores(w, expr)
        /\ \A n \in 1..3, exprs \in RelLists : RelBytesStores(n, exprs)

\* A known word has just been stored, low byte first, behind another byte
C26_Witness ==
    /\ diag = NoDiag("RelWord")
    /\ InCode /\ ~InLoad
    /\ curOffset = 3
    /\ DataAt(sectionList[currentSection], 1) = ByteOf(4660, 0)
    /\ DataAt(sectionList[currentSection], 2) = ByteOf(4660, 1)

----------------------------------------------------------------------------
(* JR: a ROM section, a RAM section that may be its LOAD overlay, labels near
   and far.  DS of FarSkip bytes is drawn in the RAM section only, where it
   writes no byte. *)

MaxJumpSteps == 5

FarSkip == 65540

FarSkipRam ==
    /\ currentSection # NULL /\ ~sect_HasData(sectionList[currentSection].type)
    /\ curOffset = 0
    /\ Running /\ Apply(sect_Skip(Enter(State, "Skip"), FarSkip, TRUE))

NextJump ==
    \/ \E d \in Decls :
           steps < MaxJumpSteps /\ NewSection(d.name, d.type, UINT32_MAX, NoAttrs, "FRAGMENT")
    \/ \E d \in Decls :
           /\ steps < MaxJumpSteps
           /\ SetLoadSection(d.name, d.type, UINT32_MAX, NoAttrs, "FRAGMENT")
    \/ steps < MaxJumpSteps /\ EndLoadSection
    \/ \E b \in Bytes : steps < MaxJumpSteps /\ ConstByte(b)
    \/ steps < MaxJumpSteps /\ FarSkipRam
    \/ \E expr \in JumpExprs : steps < MaxJumpSteps /\ PCRelByte(expr, 1)

SpecJump == Init /\ [][NextJump]_vars

\* target - (PC + 1) for a label of the symbol section, -2 for PC itself
JumpDistance(expr) == IF expr.isPC THEN -2 ELSE expr.symOffset - (curOffset + 1)

\* JR with the offset `offset(expr)`: one byte and no error and no patch when
\* it is in -128..127, an error and one zero byte when it is not, one patch
\* and one zero byte when the expression is no constant difference from PC
JumpStores(expr, offset(_)) ==
    LET s1 == sect_PCRelByte(Enter(State, "PCRelByte"), expr, 1)
        S == sectionList[currentSection]
        R == s1.sectionList[currentSection]
    IN  ~s1.diag.fatal =>
            /\ s1.curOffset = curOffset + 1
            /\ IF ~expr.diffConstant
               THEN /\ s1.diag.nerr = 0
                    /\ Len(R.patches) = Len(S.patches) + 1
                    /\ Head(R.patches).type = "JR"
                    /\ DataAt(R, OutputAt) = 0
               ELSE /\ R.patches = S.patches
                    /\ IF offset(expr) \in -128..127
                       THEN /\ s1.diag.nerr = 0
                            /\ DataAt(R, OutputAt) = offset(expr) % 256
                       ELSE /\ s1.diag.nerr = 1
                            /\ DataAt(R, OutputAt) = 0

WrappedDistance(expr) == S16(JumpDistance(expr))

\* C27 as stated: PCRelByte with an expression that is a constant difference
\* from PC computes offset = target - (PC + 1), or -2 when the operand is PC
\* itself; an offset in [-128, 127] is emitted as one byte with no error and
\* no patch, one outside is an error and one placeholder zero byte; the
\* cursor advances by 1 in every case.
C27_JumpExact ==
    ~diag.fatal /\ InCode => \A expr \in JumpExprs : JumpStores(expr, JumpDistance)

\* C27, amended: the same with the offset converted to a signed 16-bit value
\* before the test, so that a target 65536 bytes further or nearer is taken
\* for the one at the same distance modulo 65536.
C27_JumpOffset ==
    ~diag.fatal /\ InCode => \A expr \in JumpExprs : JumpStores(expr, WrappedDistance)

\* JR has just been emitted without a diagnostic and without a patch, to a
\* label more than 65536 bytes back whose distance wraps to -5
C27_Witness ==
    /\ diag = NoDiag("PCRelByte")
    /\ InCode /\ InLoad
    /\ curOffset = FarSkip + 1
    /\ sectionList[currentSection].patches = <<>>
    /\ DataAt(sectionList[currentSection], OutputAt - 1) = 251

----------------------------------------------------------------------------
(* Lookup by name *)

\* The section a name was first declared as: the first of the list that
\* bears it (the fragment literals of a section come after it)
FirstDeclared(name) ==
    CHOOSE i \in Bearing(name) : \A j \in Bearing(name) : i <= j

\* C28: registry lookup is consistent: after any sequence of directives,
\* fragment literals followed by new declarations included, find(name)
\* returns for every declared name the first-declared section of that name,
\* never a section with another name and never a fragment-literal sibling.
C28_LookupConsistent ==
    ~diag.fatal =>
        \A name \in DOMAIN sectionMap :
            LET found == sect_FindSectionByName(State, name)
            IN  /\ found \in 1..Len(sectionList)
                /\ sectionList[found].name = name
                /\ found = FirstDeclared(name)

----------------------------------------------------------------------------
(* FRAGMENT re-declarations *)

AfterFragment(i, org, alignment, alignOfs) ==
    getSection(Enter(State, "NewSection"), sectionList[i].name, sectionList[i].type, org,
               [bank |-> UINT32_MAX, alignment |-> alignment, alignOfs |-> alignOfs],
               "FRAGMENT").st

\* C29: a FRAGMENT re-declaration with a fixed address org onto a section S
\* that returns normally leaves S.org = org - S.size as an exact integer, and
\* one with an alignment that S adopts leaves it with the offset
\* (alignOfs - S.size) mod 2^align, in [0, 2^align); a declaration with
\* org < S.size is not accepted with a wrapped address.
C29_FragmentOrg ==
    ~diag.fatal =>
        \A i \in 1..Len(sectionList) :
            sectionList[i].modifier = "FRAGMENT" =>
                LET S == sectionList[i]
                IN  /\ \A org \in Orgs(S.type) \ {UINT32_MAX} :
                           LET s1 == AfterFragment(i, org, 0, 0)
                           IN  ~s1.diag.fatal =>
                                   /\ org >= S.size
                                   /\ s1.sectionList[i].org = org - S.size
                    /\ \A alignment \in {1, 8}, alignOfs \in AlignOffsets :
                           LET s1 == AfterFragment(i, UINT32_MAX, alignment, alignOfs)
                               R == s1.sectionList[i]
                           IN  ~s1.diag.fatal /\ R.align # S.align =>
                                   /\ R.align = alignment
                                   /\ R.alignOfs = (alignOfs - S.size) % Pow2(alignment)
                                   /\ R.alignOfs \in 0..(Pow2(alignment) - 1)

----------------------------------------------------------------------------
(* Banks *)

AfterBank(i, bank, mod) ==
    getSection(Enter(State, "NewSection"), sectionList[i].name, sectionList[i].type,
               UINT32_MAX, [NoAttrs EXCEPT !.bank = bank], mod).st

\* A UNION or FRAGMENT re-declaration with a bank, or with none
BankMerged(i, bank) ==
    LET S == sectionList[i]
        s1 == AfterBank(i, bank, S.modifier)
        R == s1.sectionList[i]
    IN  /\ S.bank = UINT32_MAX /\ ~s1.diag.fatal => R.bank = bank
        /\ S.bank # UINT32_MAX /\ bank # UINT32_MAX /\ bank # S.bank => s1.diag.fatal
        /\ S.bank # UINT32_MAX /\ bank \in {UINT32_MAX, S.bank} =>
               ~s1.diag.fatal /\ R.bank = S.bank

\* No step changes a bank that is set
BanksKept ==
    \A i \in 1..Len(sectionList) :
        sectionList[i].bank # UINT32_MAX => sectionList'[i].bank = sectionList[i].bank

\* C30: on a UNION or FRAGMENT re-declaration, S adopts the declared bank if
\* it has none; if both S and the declaration specify a bank they must be
\* equal, otherwise the merge is fatal; a bank once set on a section never
\* changes afterwards.
C30_BankMerge ==
    /\ [](~diag.fatal =>
              \A i \in 1..Len(sectionList), bank \in MergeBanks :
                  sectionList[i].modifier \in MergeModifiers => BankMerged(i, bank))
    /\ [][BanksKept]_vars

\* A section that holds bytes and was declared twice, once with bank 2 and
\* once with an address
C30_Witness ==
    /\ diag = NoDiag("NewSection")
    /\ \E i \in 1..Len(sectionList) :
           /\ sectionList[i].bank = 2
           /\ sectionList[i].org # UINT32_MAX
           /\ sectionList[i].size > 0

----------------------------------------------------------------------------
(* Growth of the counters up to the end of the 32-bit range *)

MaxGrowSteps == 4

\* the two 16-bit halves of a uint32_t
Lo(x) == x % 65536

Hi(x) == ((x - Lo(x)) \div 65536) % 65536

\* the sum of two uint32_t, as numbers, is 2^32 or more
Carries(a, b) == Hi(a) + Hi(b) + ((Lo(a) + Lo(b)) \div 65536) >= 65536

\* the larger of two uint32_t
UMax(a, b) == IF ULt(a, b) THEN b ELSE a

\* the growths drawn: none, a byte, a row of bytes, and the two that reach
\* the last sixteen offsets and the last offset of the 32-bit range
GrowInputs == {0, 1, 16, -16, UINT32_MAX}

\* while (skip--) writeByte(options.padByte) in closed form, for an output
\* offset that stands at or after every byte stored in the section and does
\* not pass 2^32 - 1 on the way: each writeByte stores a pad byte where a zero
\* already is and grows by one, and the growth that would pass UINT32_MAX is
\* fatal
writePadFar(s, skip) ==
    LET room == Sub32(UINT32_MAX, s.curOffset)
    IN  IF ULt(room, skip) THEN fatal(growSection(s, room)) ELSE growSection(s, skip)

PadsOnly(s, skip) ==
    /\ s.currentLoadSection = NULL \/ ~Carries(sect_GetOutputOffset(s), skip)
    /\ padByte = 0
    /\ \A k \in DOMAIN s.sectionList[s.currentSection].data :
           ULt(k, sect_GetOutputOffset(s))

\* DS with a count too large to follow byte by byte
FarSkipGrow(skip) ==
    /\ currentSection # NULL
    /\ steps < MaxGrowSteps /\ Running
    /\ IF sect_HasData(sectionList[currentSection].type)
       THEN PadsOnly(State, skip) /\ Apply(writePadFar(Enter(State, "Skip"), skip))
       ELSE Apply(sect_Skip(Enter(State, "Skip"), skip, TRUE))

\* DS with a small count, at any cursor
NearSkipGrow(skip) ==
    /\ currentSection # NULL
    /\ steps < MaxGrowSteps /\ Running
    /\ Apply(sect_Skip(Enter(State, "Skip"), skip, TRUE))

NextGrow ==
    \/ \E d \in Decls :
           steps < MaxGrowSteps /\ NewSection(d.name, d.type, UINT32_MAX, NoAttrs, "FRAGMENT")
    \/ \E d \in Decls :
           /\ steps < MaxGrowSteps
           /\ SetLoadSection(d.name, d.type, UINT32_MAX, NoAttrs, "FRAGMENT")
    \/ steps < MaxGrowSteps /\ EndLoadSection
    \/ \E skip \in {-16, UINT32_MAX} : FarSkipGrow(skip)
    \/ \E skip \in {1, 16} : NearSkipGrow(skip)

SpecGrow == Init /\ [][NextGrow]_vars

\* C31: Grow(n) is fatal exactly when symbolOffset + n exceeds the 32-bit
\* counter; otherwise symbolOffset increases by exactly n, the active section's
\* size becomes the larger of its old size and the new output offset, the
\* overlay's size the larger of its old size and the new symbolOffset, and
\* neither symbolOffset nor the output offset nor a size wraps modulo 2^32.
C31_Grow ==
    currentSection # NULL =>
        \A n \in GrowInputs :
            LET s1 == growSection(Enter(State, "Grow"), n)
                c == currentSection
                l == currentLoadSection
                out == sect_GetOutputOffset(State)
            IN  /\ s1.diag.fatal <=> Carries(curOffset, n)
                /\ ~s1.diag.fatal =>
                       /\ s1.curOffset = Add32(curOffset, n)
                       /\ ~Carries(out, n)
                       /\ sect_GetOutputOffset(s1) = Add32(out, n)
                       /\ s1.sectionList[c].size
                              = UMax(sectionList[c].size, Add32(out, n))
                       /\ l # NULL /\ l # c =>
                              s1.sectionList[l].size
                                  = UMax(sectionList[l].size, Add32(curOffset, n))

\* the part of C31 that is about symbolOffset and the overlay alone
C31_CursorGuarded ==
    currentSection # NULL =>
        \A n \in GrowInputs :
            LET s1 == growSection(Enter(State, "Grow"), n)
                l == currentLoadSection
            IN  /\ s1.diag.fatal <=> Carries(curOffset, n)
                /\ ~s1.diag.fatal =>
                       /\ s1.curOffset = Add32(curOffset, n)
                       /\ l # NULL /\ l # currentSection =>
                              s1.sectionList[l].size
                                  = UMax(sectionList[l].size, Add32(curOffset, n))

----------------------------------------------------------------------------
(* Alignment of the cursor *)

MaxAlignSteps == 4

Min(a, b) == IF a <= b THEN a ELSE b

\* sect_GetAlignBytes without the section's address or alignment offset
sect_GetAlignBytes_NoPC(s, alignment, offset) ==
    LET i == sect_GetSymbolSection(s)
    IN  IF i = NULL THEN 0
        ELSE
        LET sect == s.sectionList[i]
            isFixed == sect.org # UINT32_MAX
            curAlignment == IF isFixed THEN 16 ELSE sect.align
        IN  IF curAlignment = 0 THEN 0
            ELSE U16(Sub32(offset, s.curOffset)) % Pow2(Min(alignment, curAlignment))

\* sect_GetAlignBytes counting from the start of the section
sect_GetAlignBytes_FromStart(s, alignment, offset) ==
    LET i == sect_GetSymbolSection(s)
    IN  IF i = NULL THEN 0
        ELSE
        LET sect == s.sectionList[i]
            isFixed == sect.org # UINT32_MAX
            curAlignment == IF isFixed THEN 16 ELSE sect.align
            pcValue == U16(IF isFixed THEN sect.org ELSE sect.alignOfs)
        IN  IF curAlignment = 0 THEN 0
            ELSE U16(Sub32(offset, pcValue)) % Pow2(Min(alignment, curAlignment))

sect_GetAlignBytes(s, alignment, offset) ==
    LET i == sect_GetSymbolSection(s)
    IN  IF i = NULL THEN 0
        ELSE
        LET sect == s.sectionList[i]
            isFixed == sect.org # UINT32_MAX
            curAlignment == IF isFixed THEN 16 ELSE sect.align
            pcValue == U16(IF isFixed THEN sect.org ELSE sect.alignOfs)
        IN  IF curAlignment = 0 THEN 0
            ELSE U16(Sub32(Sub32(offset, s.curOffset), pcValue))
                     % Pow2(Min(alignment, curAlignment))

\* the sections of the alignment runs: no address, the first and the second
\* address of the type; alignments of 1, 2 and 4 bytes
AlignOrgs(type) ==
    {UINT32_MAX, sectionTypeInfo[type].startAddr, sectionTypeInfo[type].startAddr + 1}

SectAlignments == {0, 1, 2}
SectAlignOffsets == {0, 1}

\* ALIGN[a, o] as the parser passes it on: o below 2^a
AlignRequests ==
    {r \in [alignment : {0, 1, 2, 3, 16, 17}, offset : {0, 1, 3}] :
        r.alignment < 16 => r.offset < Pow2(r.alignment)}

AlignRunning == steps < MaxAlignSteps

NextAlign ==
    \/ \E d \in Decls, alignment \in SectAlignments, alignOfs \in SectAlignOffsets :
           \E org \in AlignOrgs(d.type) :
               /\ AlignRunning
               /\ NewSection(d.name, d.type, org,
                             [bank |-> UINT32_MAX, alignment |-> alignment,
                              alignOfs |-> alignOfs], "NORMAL")
    \/ \E d \in Decls, alignment \in SectAlignments, alignOfs \in SectAlignOffsets :
           \E org \in AlignOrgs(d.type) :
               /\ AlignRunning
               /\ SetLoadSection(d.name, d.type, org,
                                 [bank |-> UINT32_MAX, alignment |-> alignment,
                                  alignOfs |-> alignOfs], "NORMAL")
    \/ AlignRunning /\ EndLoadSection
    \/ \E n \in 1..2 : AlignRunning /\ Skip(n, TRUE)
    \/ \E r \in AlignRequests : AlignRunning /\ AlignPC(r.alignment, r.offset)

SpecAlign == Init /\ [][NextAlign]_vars

\* the address of the cursor as far as it is known: from the section's
\* address, or from its alignment offset
PCValue(s) ==
    LET sect == s.sectionList[sect_GetSymbolSection(s)]
    IN  Add32(IF sect.org # UINT32_MAX THEN sect.org ELSE sect.alignOfs, s.curOffset)

CurAlignment(s) ==
    LET sect == s.sectionList[sect_GetSymbolSection(s)]
    IN  IF sect.org # UINT32_MAX THEN 16 ELSE sect.align

\* n is the least number of bytes after which the cursor is at offset
\* modulo 2^exponent
LeastPadding(s, n, exponent, offset) ==
    /\ 0 <= n /\ n < Pow2(exponent)
    /\ Add32(PCValue(s), n) % Pow2(exponent) = offset % Pow2(exponent)

AlignConflict(s, alignment, offset) ==
    LET sect == s.sectionList[sect_GetSymbolSection(s)]
        common == Pow2(Min(alignment, sect.align))
    IN  sect.align # 0 /\ Add32(sect.alignOfs, s.curOffset) % common # offset % common

\* what C33 says of alignPC(a, o) apart from the address being a set one
AlignPCPost(s, alignment, offset) ==
    LET s1 == sect_AlignPC(Enter(s, "AlignPC"), alignment, offset)
        i == sect_GetSymbolSection(s)
        sect == s.sectionList[i]
        sect1 == s1.sectionList[i]
    IN  IF sect.org # UINT32_MAX THEN
            /\ s1.sectionList = s.sectionList
            /\ s1.diag.nerr > 0 <=>
                   Add32(sect.org, s.curOffset) % Pow2(alignment) # offset
        ELSE ~AlignConflict(s, alignment, offset) =>
            IF alignment >= 16 THEN
                /\ sect1.align = 0
                /\ sect1.org = Sub32(offset, s.curOffset)
            ELSE IF alignment > sect.align THEN
                /\ sect1.align = alignment
                /\ sect1.org = UINT32_MAX
                /\ Add32(sect1.alignOfs, s.curOffset) % Pow2(alignment) = offset
            ELSE s1.sectionList = s.sectionList

\* C33: alignPC(a, o) on a fixed section changes nothing and reports an error
\* iff (org + symbolOffset) mod 2^a != o; on a floating section with no
\* conflict it sets align = a and alignOfs with
\* (alignOfs + symbolOffset) mod 2^a == o when section.align < a < 16, leaves
\* the constraints alone when a <= section.align, and for a >= 16 resets align
\* to 0 and fixes org = o - symbolOffset, which is then a set address.
C33_AlignPC ==
    currentSection # NULL =>
        \A r \in AlignRequests :
            LET s1 == sect_AlignPC(Enter(State, "AlignPC"), r.alignment, r.offset)
                i == sect_GetSymbolSection(State)
            IN  /\ AlignPCPost(State, r.alignment, r.offset)
                /\ sectionList[i].org = UINT32_MAX
                       /\ ~AlignConflict(State, r.alignment, r.offset)
                       /\ r.alignment >= 16
                       => s1.sectionList[i].org # UINT32_MAX

\* the part of C33 that does not ask for a set address
C33_ExceptSetAddress ==
    currentSection # NULL =>
        \A r \in AlignRequests : AlignPCPost(State, r.alignment, r.offset)

----------------------------------------------------------------------------
(* Fragment literals *)

LiteralAllowed ==
    /\ currentSection # NULL
    /\ sect_HasData(sectionList[currentSection].type)
    /\ sectionList[currentSection].modifier # "UNION"
    /\ currentLoadSection = NULL

\* the step of a fragment literal
LiteralStep ==
    diag'.op = "PushSectionFragmentLiteral" =>
        /\ diag'.fatal <=> ~LiteralAllowed
        /\ ~diag'.fatal =>
               LET parent == currentSection
                   sect == Len(sectionList) + 1
               IN  /\ sectionStack' = <<Context(State)>> \o sectionStack
                   /\ Len(sectionList') = sect
                   /\ sectionList'[sect].name = sectionList[parent].name
                   /\ sectionList'[sect].type = sectionList[parent].type
                   /\ sectionList'[sect].modifier = "FRAGMENT"
                   /\ sectionList'[sect].org = UINT32_MAX
                   /\ sectionList'[sect].align = 0
                   /\ sectionList'[sect].size = 0
                   /\ currentSection' = sect
                   /\ currentLoadSection' = NULL
                   /\ curOffset' = 0
                   /\ sectionList'[parent] = [sectionList[parent] EXCEPT !.modifier = "FRAGMENT"]
                   /\ \A i \in 1..Len(sectionList) :
                          i # parent => sectionList'[i] = sectionList[i]

\* a modifier changes only in the parent of a fragment literal
ModifierStep ==
    \A i \in 1..Len(sectionList) :
        sectionList'[i].modifier # sectionList[i].modifier =>
            /\ diag'.op = "PushSectionFragmentLiteral"
            /\ i = currentSection
            /\ sectionList'[i].modifier = "FRAGMENT"

\* POPS after the literal, at once or after a byte of the sibling, is back at
\* the parent's cursor
LiteralPops ==
    LiteralAllowed /\ Len(sectionList) < MaxSections =>
        LET s1 == sect_PushSectionFragmentLiteral(Enter(State, "PushSectionFragmentLiteral"))
        IN  \A s2 \in {s1, sect_ConstByte(Enter(s1, "ConstByte"), 170)} :
                LET s3 == sect_PopSection(Enter(s2, "PopSection"))
                IN  /\ ~s3.diag.fatal
                    /\ s3.currentSection = currentSection
                    /\ s3.curOffset = curOffset
                    /\ s3.loadOffset = loadOffset
                    /\ s3.sectionStack = sectionStack

\* C34: a fragment literal is fatal unless the active section has data, is not
\* a UNION and no LOAD is active; it pushes the context, appends a sibling with
\* the parent's name and type, modifier FRAGMENT, no org, align 0 and size 0,
\* makes it active at symbolOffset 0 and turns the parent's modifier into
\* FRAGMENT, leaving the parent's size, data, patches, org and alignment; a
\* following POPS is back at the parent's cursor; no modifier changes in any
\* other way.
C34_FragmentLiteral == [][LiteralStep /\ ModifierStep]_vars /\ []LiteralPops

\* a literal in a section that was not a fragment and holds bytes
C34_Witness ==
    /\ diag.op = "PushSectionFragmentLiteral" /\ ~diag.fatal
    /\ sectionStack # <<>>
    /\ Head(sectionStack).section # NULL
    /\ Head(sectionStack).offset > 0
    /\ sectionList[Head(sectionStack).section].size > 0
    /\ currentSection = Len(sectionList)

----------------------------------------------------------------------------
(* INCBIN of a slice *)

MaxSliceSteps == 4

\* count calls of error(); the counter of the model stops at INT32_MAX
errorTimes(s, count) ==
    [s EXCEPT !.diag.nerr =
        IF count < 0 \/ @ > INT32_MAX - count THEN INT32_MAX ELSE @ + count]

\* while (length--): a byte of the file is written while there is one, and
\* every later round reports an error
readSlice(s, bytes, pos, length) ==
    LET avail == Len(bytes) - pos
        n == IF ULt(avail, length) THEN avail ELSE length
        s1 == writeFile(s, SubSeq(bytes, 1, pos + n), pos)
    IN  IF s1.diag.fatal THEN s1 ELSE errorTimes(s1, Sub32(length, n))

sect_BinaryFileSlice(s, file, startPos, length) ==
    IF ~requireCodeSection(s) THEN error(s)
    ELSE IF length = 0 THEN s
    ELSE IF ~file.found THEN error(s)
    ELSE IF file.seekable THEN
        LET fsize == Len(file.bytes)
        IN  IF ULt(fsize, startPos) THEN error(s)
            ELSE IF ULt(fsize, Add32(startPos, length)) THEN error(s)
            ELSE readSlice(s, file.bytes, startPos, length)
    ELSE
        LET s1 == IF ~file.espipe THEN error(s) ELSE s
        IN  IF ULt(Len(file.bytes), startPos) THEN error(s1)
            ELSE readSlice(s1, file.bytes, startPos, length)

SliceFiles ==
    {[found |-> FALSE, seekable |-> FALSE, espipe |-> FALSE, bytes |-> <<>>],
     [found |-> TRUE, seekable |-> TRUE, espipe |-> FALSE, bytes |-> <<1, 2, 3>>],
     [found |-> TRUE, seekable |-> TRUE, espipe |-> FALSE, bytes |-> <<>>],
     [found |-> TRUE, seekable |-> FALSE, espipe |-> TRUE, bytes |-> <<1, 2>>]}

\* positions and lengths inside, at the end of and past the file, and at the
\* end of the 32-bit range
SlicePositions == {0, 1, 3, 4, UINT32_MAX}
SliceLengths == {0, 1, 2, 3, 4, -3, UINT32_MAX}

BinaryFileSlice(file, startPos, length) ==
    /\ Running /\ curOffset >= 0 /\ curOffset <= MaxOffset
    /\ Apply(sect_BinaryFileSlice(Enter(State, "BinaryFileSlice"), file, startPos, length))

SliceRunning == steps < MaxSliceSteps

NextSlice ==
    \/ \E d \in Decls :
           SliceRunning /\ NewSection(d.name, d.type, UINT32_MAX, NoAttrs, "FRAGMENT")
    \/ \E b \in Bytes : SliceRunning /\ ConstByte(b)
    \/ \E file \in SliceFiles, startPos \in SlicePositions, length \in SliceLengths :
           SliceRunning /\ BinaryFileSlice(file, startPos, length)

SpecSlice == Init /\ [][NextSlice]_vars

KnownSize(file) == file.found /\ file.seekable

\* startPos + length, as numbers, is at most the size of the file
SliceFits(file, startPos, length) ==
    /\ ~Carries(startPos, length)
    /\ ULe(Add32(startPos, length), Len(file.bytes))

\* what C35 says of one slice
SlicePost(file, startPos, length) ==
    LET s1 == sect_BinaryFileSlice(Enter(State, "BinaryFileSlice"), file, startPos, length)
        c == currentSection
        emitted == Sub32(s1.curOffset, curOffset)
    IN  IF length = 0 THEN s1 = Enter(State, "BinaryFileSlice")
        ELSE IF SliceFits(file, startPos, length) THEN
            /\ emitted = length
            /\ s1.diag.nerr = 0
            /\ \A k \in 0..(length - 1) :
                   DataAt(s1.sectionList[c], sect_GetOutputOffset(State) + k)
                       = file.bytes[startPos + k + 1]
        ELSE
            /\ emitted = 0
            /\ s1.sectionList = sectionList
            /\ s1.diag.nerr > 0

\* C35: a slice of a file of known size emits exactly length bytes when
\* startPos + length <= fileSize, and emits no byte and reports an error when
\* the true sum startPos + length exceeds fileSize, for all 32-bit startPos
\* and length; a length of 0 emits nothing.
C35_Slice ==
    requireCodeSection(State) /\ curOffset >= 0 /\ curOffset <= MaxOffset =>
        \A file \in {f \in SliceFiles : KnownSize(f)},
           startPos \in SlicePositions, length \in SliceLengths :
            SlicePost(file, startPos, length)

\* C35 for the slices whose startPos + length stays below 2^32
C35_SliceNoCarry ==
    requireCodeSection(State) /\ curOffset >= 0 /\ curOffset <= MaxOffset =>
        \A file \in {f \in SliceFiles : KnownSize(f)},
           startPos \in SlicePositions, length \in SliceLengths :
            ~Carries(startPos, length) => SlicePost(file, startPos, length)

----------------------------------------------------------------------------
(* Sizes and cursors *)

\* the sizes of a context's sections reach its offsets
Covered(section, loadSection, offset, loadOfs) ==
    section # NULL =>
        /\ ULe(Add32(offset, loadOfs), sectionList[section].size)
        /\ loadSection # NULL => ULe(offset, sectionList[loadSection].size)

\* C36: in every reachable state the active section's size is at least
\* symbolOffset + loadOffset and, inside a LOAD block, the overlay's size is at
\* least symbolOffset; the same holds of the sections and offsets of every
\* context saved on the section stack.
C36_SizesCoverCursors ==
    /\ Covered(currentSection, currentLoadSection, curOffset, loadOffset)
    /\ \A k \in 1..Len(sectionStack) :
           Covered(sectionStack[k].section, sectionStack[k].loadSection,
                   sectionStack[k].offset, sectionStack[k].loadOffset)

\* a LOAD block with bytes saved by PUSHS, and a section with bytes entered
\* after it
C36_Witness ==
    /\ sectionStack # <<>>
    /\ Head(sectionStack).loadSection # NULL
    /\ Head(sectionStack).offset > 0
    /\ Head(sectionStack).loadOffset # 0
    /\ currentSection # NULL
    /\ curOffset > 0

----------------------------------------------------------------------------
(* Sections whose size is known *)

MaxKnownSteps == 5

Section_isSizeKnown(s, i) ==
    LET sect == s.sectionList[i]
    IN  /\ sect.modifier = "NORMAL"
        /\ i # s.currentSection /\ i # s.currentLoadSection
        /\ \A k \in 1..Len(s.sectionStack) :
               LET entry == s.sectionStack[k]
               IN  entry.section # NULL =>
                       s.sectionList[entry.section].name # sect.name

KnownRunning == steps < MaxKnownSteps

NextKnown ==
    \/ \E d \in Decls, m \in {"NORMAL", "FRAGMENT"} :
           KnownRunning /\ NewSection(d.name, d.type, UINT32_MAX, NoAttrs, m)
    \/ \E d \in Decls :
           KnownRunning /\ SetLoadSection(d.name, d.type, UINT32_MAX, NoAttrs, "NORMAL")
    \/ KnownRunning /\ EndLoadSection
    \/ KnownRunning /\ Skip(1, TRUE)
    \/ KnownRunning /\ PushSection
    \/ KnownRunning /\ PopSection
    \/ KnownRunning /\ EndSection

SpecKnown == Init /\ [][NextKnown]_vars

\* section i is the LOAD overlay of a saved context
SavedOverlay(i) == \E k \in 1..Len(sectionStack) : sectionStack[k].loadSection = i

KnownDirectives ==
    {DOp("PopSection"), DOp("PushSection"), DOp("EndLoadSection"), DOp("EndSection"),
     DSkip(1)}
        \cup {DSection(d.name, d.type, m) : d \in Decls, m \in {"NORMAL", "FRAGMENT"}}
        \cup {DLoad(d.name, d.type, "NORMAL") : d \in Decls}

\* the directive sequences of up to three directives
Continuations ==
    UNION {[1..n -> KnownDirectives] : n \in 0..3}

\* no continuation changes the size of section i
SizeFinal(i) ==
    \A ds \in Continuations :
        RunFrom(State, ds).st.sectionList[i].size = sectionList[i].size

\* C37: once isSizeKnown() is true of a section, the section's size is the
\* same in every later state, whatever directives follow.
C37_KnownSizeFinal ==
    \A i \in 1..Len(sectionList) : Section_isSizeKnown(State, i) => SizeFinal(i)

\* C37 for the sections that are not the LOAD overlay of a saved context
C37_ExceptSavedOverlay ==
    \A i \in 1..Len(sectionList) :
        Section_isSizeKnown(State, i) /\ ~SavedOverlay(i) => SizeFinal(i)

----------------------------------------------------------------------------
(* The label scopes a LOAD block returns to *)

\* well-nested blocks between a LOAD and its ENDL that open no LOAD
PlainBlocks ==
    {<<>>, <<DByte(1)>>, <<DSkip(2)>>,
     <<DOp("PushSection"), DOp("PopSection")>>,
     <<DOp("PushSection"), DSection("C", "ROM0", "FRAGMENT"), DByte(1), DOp("PopSection")>>,
     <<DOp("PushSection"), DSection("C", "WRAM0", "FRAGMENT"), DOp("StartUnion"),
       DSkip(1), DOp("EndUnion"), DOp("PopSection")>>}

\* PUSHS ... POPS blocks that open another LOAD, and close it or leave it open
NestedLoadBlocks ==
    {<<DOp("PushSection"), DSection("C", "ROM0", "FRAGMENT"),
       DLoad("D", "WRAM0", "FRAGMENT"), DOp("EndLoadSection"), DOp("PopSection")>>,
     <<DOp("PushSection"), DSection("C", "ROM0", "FRAGMENT"),
       DLoad("D", "WRAM0", "FRAGMENT"), DByte(1), DOp("PopSection")>>}

\* LOAD d, the block, ENDL: the scopes are those before the LOAD
ScopesRestored(d, block) ==
    LET s1 == Exec(State, DLoad(d.name, d.type, "FRAGMENT"))
        r == RunFrom(s1, block)
        s3 == Exec(r.st, DOp("EndLoadSection"))
    IN  Ok(s1) /\ ~r.st.diag.fatal /\ r.st.currentLoadSection = s1.currentLoadSection
            => /\ Ok(s3)
               /\ s3.currentLoadSection = NULL
               /\ s3.labelScopes = labelScopes

LoadOpens ==
    /\ ~diag.fatal /\ currentLoadSection = NULL
    /\ currentSection # NULL /\ sect_HasData(sectionList[currentSection].type)

\* C38: endLoadSection restores the label scopes that were current when the
\* matching setLoadSection was executed, for every well-nested block in
\* between, including a PUSHS ... POPS block that opens and closes, or leaves
\* open, another LOAD.
C38_LoadScopes ==
    LoadOpens =>
        \A block \in PlainBlocks \cup NestedLoadBlocks :
            ScopesRestored([name |-> "B", type |-> "WRAM0"], block)

\* C38 for the blocks that open no LOAD
C38_PlainBlocks ==
    LoadOpens =>
        \A block \in PlainBlocks : ScopesRestored([name |-> "B", type |-> "WRAM0"], block)

----------------------------------------------------------------------------
(* Padding, then aligning *)

\* ALIGN[a, o] with a in 0..16 and o < 2^a
PadRequests ==
    {r \in [alignment : {0, 1, 2, 3, 8, 16}, offset : {0, 1, 3, 5, 255, 65535}] :
        r.offset < Pow2(r.alignment)}

\* DS n, the padding loop taken in closed form when it is long
Padded(s, n) ==
    IF ~sect_HasData(s.sectionList[s.currentSection].type) \/ n <= 16
    THEN sect_Skip(Enter(s, "Skip"), n, TRUE)
    ELSE writePadFar(Enter(s, "Skip"), n)

PadThenAlign(s, alignment, offset) ==
    LET n == sect_GetAlignBytes(s, alignment, offset)
        s1 == Padded(s, n)
        s2 == sect_AlignPC(Enter(s1, "AlignPC"), alignment, offset)
    IN  PadsOnly(s, n) /\ ~s1.diag.fatal =>
            /\ s1.diag.nerr = 0
            /\ Sub32(s1.curOffset, s.curOffset) = n
            /\ s2.diag.nerr = 0 /\ ~s2.diag.fatal

\* C39: in every active section (fixed, aligned or not, inside a LOAD block or
\* not), for every alignment a in 0..16 and offset o < 2^a, alignPC(a, o)
\* reports no error after exactly getAlignBytes(a, o) bytes of Skip.
C39_PadThenAlign ==
    ~diag.fatal /\ currentSection # NULL =>
        \A r \in PadRequests : PadThenAlign(State, r.alignment, r.offset)

\* inside a LOAD block whose overlay is aligned, past its start: padding is
\* needed, and so is a long padding in the parent
C39_Witness ==
    /\ ~diag.fatal /\ currentSection # NULL /\ currentLoadSection # NULL
    /\ sectionList[currentLoadSection].align = 2
    /\ curOffset > 0 /\ loadOffset # 0
    /\ PadsOnly(State, 65535)
    /\ sect_GetAlignBytes(State, 2, 3) > 0
    /\ sect_GetAlignBytes(State, 2, 3) < 3
    /\ sectionList[currentSection].org # UINT32_MAX

----------------------------------------------------------------------------
(* The characters of a format specification, one at a time *)

MaxFormatLen == 4

\* a sign, the flags, a zero and another digit, the two separators, two type
\* letters and a character that belongs to no field
FormatChars == {"+", "#", "-", "0", "5", ".", "q", "d", "s", "z"}

UseCharacter(c) ==
    /\ ~reader.finished /\ Len(reader.chars) < MaxFormatLen
    /\ fmt' = FormatSpec_useCharacter(fmt, c)
    /\ reader' = [reader EXCEPT !.chars = Append(@, c)]
    /\ UNCHANGED <<Engine, diag, steps>>

FinishCharacters ==
    /\ ~reader.finished
    /\ fmt' = FormatSpec_finishCharacters(fmt)
    /\ reader' = [reader EXCEPT !.finished = TRUE]
    /\ UNCHANGED <<Engine, diag, steps>>

NextFormat ==
    \/ \E c \in FormatChars : UseCharacter(c)
    \/ FinishCharacters

SpecFormat == Init /\ [][NextFormat]_vars

\* the first position from i on that holds no character of the set, having
\* passed at most one (once) or any number of them
PassOne(cs, i, set) == IF i <= Len(cs) /\ cs[i] \in set THEN i + 1 ELSE i

PassDigits(cs, i) ==
    CHOOSE j \in i..(Len(cs) + 1) :
        /\ \A k \in i..(j - 1) : IsDigit(cs[k])
        /\ j <= Len(cs) => ~IsDigit(cs[j])

\* an optional separator followed by digits
PassField(cs, i, sep) ==
    IF i <= Len(cs) /\ cs[i] = sep THEN PassDigits(cs, i + 1) ELSE i

\* the characters are, in this order: a sign, '#', '-', a width, '.' and a
\* fractional width, 'q' and a precision (each of them optional), and one type
\* letter, which is the last character
InOrder(cs) ==
    LET sign == PassOne(cs, 1, {" ", "+"})
        exact == PassOne(cs, sign, {"#"})
        align == PassOne(cs, exact, {"-"})
        width == PassDigits(cs, align)
        frac == PassField(cs, width, ".")
        prec == PassField(cs, frac, "q")
    IN  prec = Len(cs) /\ cs[prec] \in TypeChars

RECURSIVE PassFields(_, _, _)
\* any number of fields with the same separator
PassFields(cs, i, sep) ==
    IF i <= Len(cs) /\ cs[i] = sep THEN PassFields(cs, PassDigits(cs, i + 1), sep) ELSE i

\* the same, with any number of 'q' fields
InOrderManyQ(cs) ==
    LET sign == PassOne(cs, 1, {" ", "+"})
        exact == PassOne(cs, sign, {"#"})
        align == PassOne(cs, exact, {"-"})
        width == PassDigits(cs, align)
        frac == PassField(cs, width, ".")
        prec == PassFields(cs, frac, "q")
    IN  prec = Len(cs) /\ cs[prec] \in TypeChars

\* no character moves the state backwards, and none leaves FORMAT_INVALID
ForwardOnly ==
    /\ fmt'.state >= fmt.state
    /\ fmt.state = FORMAT_INVALID => fmt'.state = FORMAT_INVALID /\ ~fmt'.valid

\* C40: useCharacter never moves the state backwards through sign, exact,
\* align, width, fractional width, precision, type; once the state is
\* FORMAT_INVALID it stays invalid; and after finishCharacters the spec is
\* valid if and only if the characters came in that order and the last one
\* was a single type letter.
C40_FormatOrder ==
    [][/\ ForwardOnly
       /\ reader'.finished /\ ~reader.finished =>
              (FormatSpec_isValid(fmt') <=> InOrder(reader.chars))]_vars

\* C40 with any number of 'q' fields allowed before the type letter
C40_ExceptRepeatedQ ==
    [][/\ ForwardOnly
       /\ reader'.finished /\ ~reader.finished =>
              (FormatSpec_isValid(fmt') <=> InOrderManyQ(reader.chars))]_vars

====
